---- MODULE Spec2Model ----
(***************************************************************************)
(* Text layout, shrink-to-fit and employee roster logic of server.js.      *)
(*                                                                         *)
(* Units.  Font sizes are counted in half points (10pt = 20), because the  *)
(* shrink loop steps by 0.5.  Glyph advances are counted in thousandths of *)
(* an em, as the font's metrics give them, so that                         *)
(*   widthOfTextAtSize(text, size) = (sum of advances) * size              *)
(* is an exact integer in units of 1/2000 pt (WidthPt = 2000).  Heights    *)
(* and line heights are counted in twentieths of a point (Pt = 20): a size *)
(* in half points times a multiplier in tenths.  Widths are only compared  *)
(* with widths and heights with heights, as in the source.                 *)
(* A text is a sequence of one-character strings.                          *)
(***************************************************************************)
EXTENDS Integers, Sequences, FiniteSets, TLC

\* ---------------------------------------------------------------- bounds
MaxLen == 4

\* ------------------------------------------------------ program constants
DefaultFontSize == 10
DefaultMinFontSize == 7
RuleMinFontSize == 6
LineHeightTenths == 12
TEXT_FIELD_INNER_PADDING == 2

HalfPt(points) == 2 * points
\* one point as a height: half points per point times tenths of the multiplier
Pt == HalfPt(1) * 10
\* one point as a width: half points per point times thousandths per em
WidthPt == HalfPt(1) * 1000

\* a value computed once and handed to the expression that uses it
With(value, In(_)) == In(value)

\* a loop's accumulator is computed before the next iteration starts
Evaluated(value) == value = value

Max(a, b) == IF a >= b THEN a ELSE b
Min(a, b) == IF a <= b THEN a ELSE b

\* ------------------------------------------------------------ characters
NL == "\n"
Chars == {"a", "i", " ", NL}
IsSpace(c) == c \in {" ", NL}

RECURSIVE TextsOfLen(_)
TextsOfLen(n) ==
  IF n = 0 THEN {<<>>}
  ELSE {Append(t, c) : t \in TextsOfLen(n - 1), c \in Chars}

Texts == UNION {TextsOfLen(n) : n \in 0..MaxLen}

\* String.prototype.trim
RECURSIVE TrimLeft(_)
TrimLeft(s) ==
  IF s = <<>> \/ ~IsSpace(Head(s)) THEN s ELSE TrimLeft(Tail(s))

RECURSIVE TrimRight(_)
TrimRight(s) ==
  IF s = <<>> \/ ~IsSpace(s[Len(s)]) THEN s
  ELSE TrimRight(SubSeq(s, 1, Len(s) - 1))

trim(s) == TrimRight(TrimLeft(s))

Least(S) == CHOOSE i \in S : \A j \in S : i <= j

\* String.prototype.split on line breaks: "" gives [""], "a\n" gives ["a", ""];
\* the pieces of s from position start on
RECURSIVE SplitFrom(_, _)
SplitFrom(s, start) ==
  LET breaks == {i \in start..Len(s) : s[i] = NL} IN
  IF breaks = {} THEN <<SubSeq(s, start, Len(s))>>
  ELSE <<SubSeq(s, start, Least(breaks) - 1)>> \o SplitFrom(s, Least(breaks) + 1)

splitLines(s) == SplitFrom(s, 1)

\* String.prototype.split(/\s+/): a run of white space is one separator
RECURSIVE SplitWsFrom(_, _)
SplitWsFrom(s, start) ==
  LET spaces == {i \in start..Len(s) : IsSpace(s[i])} IN
  IF spaces = {} THEN <<SubSeq(s, start, Len(s))>>
  ELSE LET inks == {i \in Least(spaces)..Len(s) : ~IsSpace(s[i])} IN
       <<SubSeq(s, start, Least(spaces) - 1)>>
       \o SplitWsFrom(s, IF inks = {} THEN Len(s) + 1 ELSE Least(inks))

splitWords(s) == SplitWsFrom(s, 1)

\* Array.prototype.join("\n")
RECURSIVE join(_)
join(lines) ==
  IF lines = <<>> THEN <<>>
  ELSE IF Len(lines) = 1 THEN lines[1]
  ELSE lines[1] \o <<NL>> \o join(Tail(lines))

\* Array.prototype.slice(from) and slice(0, to), 0-based as in the source
sliceFrom(lines, from) == SubSeq(lines, from + 1, Len(lines))
sliceTo(lines, to) == SubSeq(lines, 1, Min(to, Len(lines)))

\* ------------------------------------------------------------------ font
Helvetica == "Helvetica"
NoFont == "null"

\* a table that gives every glyph of a set the same amount
Each(glyphs, amount) == [c \in glyphs |-> amount]

\* Helvetica's advance widths, in thousandths of an em, of the glyphs the
\* model's texts are made of
GlyphAdvances ==
  Each({"i", "j", "l"}, 222)
  @@ Each({"f", "t", " ", "I", ".", ",", ";", ":", "/"}, 278)
  @@ Each({"r", "(", ")", "-"}, 333)
  @@ Each({"c", "k", "s", "v", "x", "y", "z", "J"}, 500)
  @@ Each({"a", "b", "d", "e", "g", "h", "n", "o", "p", "q", "u", "L",
           "0", "1", "2", "3", "4", "5", "6", "7", "8", "9"}, 556)
  @@ Each({"<", "=", ">"}, 584)
  @@ Each({"F", "T", "Z"}, 611)
  @@ Each({"A", "B", "E", "K", "P", "S", "V", "X", "Y", "&"}, 667)
  @@ Each({"C", "D", "H", "N", "R", "U", "w"}, 722)
  @@ Each({"G", "O", "Q"}, 778)
  @@ Each({"m", "M"}, 833)
  @@ Each({"W"}, 944)

\* the entry of a glyph in a table of the font's metrics, 0 without one
AdvanceIn(table, c) == IF c \in DOMAIN table THEN table[c] ELSE 0

\* a line break is never measured
GlyphAdvance(c) == AdvanceIn(GlyphAdvances, c)

\* Helvetica's kerning pairs between lower-case letters, by left glyph
KerningPairs ==
  ("f" :> Each({"a", "e", "o"}, 0 - 30))
  @@ ("r" :> (Each({"t"}, 40) @@ Each({"p", "y"}, 30) @@ Each({"m", "n"}, 25)
              @@ Each({"i", "l", "u"}, 15) @@ Each({"a"}, 0 - 10)))
  @@ Each({"a", "h", "o", "p"}, Each({"y"}, 0 - 30))
  @@ ("e" :> Each({"y"}, 0 - 20))
  @@ ("b" :> (Each({"y", "l", "u"}, 0 - 20) @@ Each({"b"}, 0 - 10)))
  @@ Each({"m", "n"}, Each({"y"}, 0 - 15) @@ Each({"u"}, 0 - 10))
  @@ ("g" :> Each({"r"}, 0 - 10))
  @@ ("y" :> Each({"a", "e", "o"}, 0 - 20))

KerningForPair(left, right) ==
  IF left \in DOMAIN KerningPairs THEN AdvanceIn(KerningPairs[left], right)
  ELSE 0

\* the sum over the glyphs of advance plus kerning with the next glyph, taken
\* over the two halves of the text
RECURSIVE SumAdvance(_)
SumAdvance(text) ==
  IF text = <<>> THEN 0
  ELSE IF Len(text) = 1 THEN GlyphAdvance(text[1])
  ELSE LET half == Len(text) \div 2 IN
       SumAdvance(SubSeq(text, 1, half))
       + KerningForPair(text[half], text[half + 1])
       + SumAdvance(SubSeq(text, half + 1, Len(text)))

widthOfTextAtSize(text, size) == SumAdvance(text) * size

\* ------------------------------------------------------------- wrapping
RECURSIVE stripTrailingEmptyLines(_)
stripTrailingEmptyLines(lines) ==
  IF lines # <<>> /\ trim(lines[Len(lines)]) = <<>>
  THEN stripTrailingEmptyLines(SubSeq(lines, 1, Len(lines) - 1))
  ELSE lines

RECURSIVE stripLeadingEmptyLines(_)
stripLeadingEmptyLines(lines) ==
  IF lines # <<>> /\ trim(Head(lines)) = <<>>
  THEN stripLeadingEmptyLines(Tail(lines))
  ELSE lines

\* mutant: the fragment is closed after every character
SplitCharsSingle(rest, current, parts, fontSize, maxWidth) ==
  parts \o [i \in 1..Len(rest) |-> <<rest[i]>>]

RECURSIVE SplitChars(_, _, _, _, _)
SplitChars(rest, current, parts, fontSize, maxWidth) ==
  IF rest = <<>>
  THEN IF current # <<>> THEN Append(parts, current) ELSE parts
  ELSE IF current = <<>>
          \/ widthOfTextAtSize(Append(current, Head(rest)), fontSize) <= maxWidth
       THEN SplitChars(Tail(rest), Append(current, Head(rest)), parts,
                       fontSize, maxWidth)
       ELSE SplitChars(Tail(rest), <<Head(rest)>>, Append(parts, current),
                       fontSize, maxWidth)

\* a JavaScript number: [finite, val]; NaN and the infinities are not finite
Num(n) == [finite |-> TRUE, val |-> n]

\* mutant: the font is not looked at
unmeasurableWidthOnly(font, maxWidth) == ~maxWidth.finite \/ maxWidth.val <= 0

\* !font || !Number.isFinite(maxWidth) || maxWidth <= 0
unmeasurable(font, maxWidth) ==
  font = NoFont \/ ~maxWidth.finite \/ maxWidth.val <= 0

\* mutant: the word is never split
splitLongWordWhole(word, font, fontSize, maxWidth) == <<word>>

splitLongWord(word, font, fontSize, maxWidth) ==
  IF word = <<>> THEN << <<>> >>
  ELSE IF unmeasurable(font, maxWidth) THEN <<word>>
  ELSE IF widthOfTextAtSize(word, fontSize) <= maxWidth.val THEN <<word>>
  ELSE With(SplitChars(word, <<>>, <<>>, fontSize, maxWidth.val),
            LAMBDA parts : IF parts # <<>> THEN parts ELSE <<word>>)

\* one segment of a word: it joins the current line when the candidate fits
placeSegment(segment, prefix, st, fontSize, maxWidth) ==
  IF st.currentLine = <<>>
  THEN [st EXCEPT !.currentLine = segment]
  ELSE IF widthOfTextAtSize(st.currentLine \o prefix \o segment, fontSize)
            <= maxWidth
  THEN [st EXCEPT !.currentLine = st.currentLine \o prefix \o segment]
  ELSE [lines |-> Append(st.lines, st.currentLine), currentLine |-> segment]

\* the body of segments.forEach: st = [lines, currentLine]
RECURSIVE PlaceSegments(_, _, _, _, _)
PlaceSegments(segments, segmentIndex, st, fontSize, maxWidth) ==
  IF segmentIndex > Len(segments) THEN st
  ELSE PlaceSegments(segments, segmentIndex + 1,
                     placeSegment(segments[segmentIndex],
                                  IF segmentIndex = 1 THEN <<" ">> ELSE <<>>,
                                  st, fontSize, maxWidth),
                     fontSize, maxWidth)

\* the body of words.forEach
RECURSIVE PlaceWords(_, _, _, _, _)
PlaceWords(words, st, font, fontSize, maxWidth) ==
  IF words = <<>> THEN st
  ELSE PlaceWords(Tail(words),
                  IF Head(words) = <<>> THEN st
                  ELSE PlaceSegments(
                         splitLongWord(Head(words), font, fontSize,
                                       Num(maxWidth)),
                         1, st, fontSize, maxWidth),
                  font, fontSize, maxWidth)

\* the body of paragraphs.forEach
RECURSIVE WrapParagraphs(_, _, _, _, _)
WrapParagraphs(paragraphs, lines, font, fontSize, maxWidth) ==
  IF paragraphs = <<>> THEN lines
  ELSE WrapParagraphs(
         Tail(paragraphs),
         IF trim(Head(paragraphs)) = <<>> THEN Append(lines, <<>>)
         ELSE With(PlaceWords(splitWords(trim(Head(paragraphs))),
                              [lines |-> lines, currentLine |-> <<>>],
                              font, fontSize, maxWidth),
                   LAMBDA st : IF st.currentLine # <<>>
                               THEN Append(st.lines, st.currentLine)
                               ELSE st.lines),
         font, fontSize, maxWidth)

wrapTextToWidth(text, font, fontSize, maxWidth) ==
  IF text = <<>> THEN << <<>> >>
  ELSE IF unmeasurable(font, maxWidth) THEN splitLines(text)
  ELSE stripTrailingEmptyLines(
         WrapParagraphs(splitLines(text), <<>>, font, fontSize, maxWidth.val))

\* font.widthOfTextAtSize(...) on a font that is null: a TypeError
measureThrows(font) == font = NoFont

\* wrapTextToWidth reaches font.widthOfTextAtSize: past its guards, and there
\* is a word to place
wrapMeasures(text, font, maxWidth) ==
  /\ text # <<>> /\ ~unmeasurable(font, maxWidth)
  /\ \E i \in 1..Len(text) : ~IsSpace(text[i])

\* splitLongWord reaches font.widthOfTextAtSize
splitMeasures(word, font, maxWidth) ==
  word # <<>> /\ ~unmeasurable(font, maxWidth)

\* computeLayout measures every line of every layout
widthMeasures(font, maxWidth) == ~unmeasurable(font, maxWidth)

\* ------------------------------------------------------- field layout
NoWidget == [none |-> TRUE]

\* resolveTextFieldStyle: the default style, or the style of a matching rule
DEFAULT_TEXT_FIELD_STYLE ==
  [fontSize |-> HalfPt(DefaultFontSize), multiline |-> FALSE,
   lineHeightMultiplier |-> LineHeightTenths,
   minFontSize |-> HalfPt(DefaultMinFontSize)]

TextFieldStyles ==
  {DEFAULT_TEXT_FIELD_STYLE,
   [DEFAULT_TEXT_FIELD_STYLE EXCEPT !.multiline = TRUE,
                                    !.minFontSize = HalfPt(RuleMinFontSize)]}

\* widget.getRectangle(), corners in points; the template places no field at
\* the origin, so rect.x1 and rect.y1 are never 0 (falsy)
RectWidths == {7, 14, 24}
RectHeights == {10, 20, 30}
Rectangles ==
  {[x1 |-> 40, y1 |-> 100, x2 |-> 40 + w, y2 |-> 100 + h] :
     w \in RectWidths, h \in RectHeights}

fieldWidth(rect) ==
  Max(WidthPt * (rect.x2 - rect.x1) - WidthPt * TEXT_FIELD_INNER_PADDING * 2,
      WidthPt * 1)

\* mutant: the inner padding is not subtracted
fieldHeightNoPadding(rect, fontSize) ==
  Max(Pt * (rect.y2 - rect.y1), (Pt \div 2) * fontSize)

fieldHeight(rect, fontSize) ==
  Max(Pt * (rect.y2 - rect.y1) - Pt * TEXT_FIELD_INNER_PADDING * 2,
      (Pt \div 2) * fontSize)

candidateLineHeight(candidateSize, lineHeightMultiplier) ==
  candidateSize *
    (IF lineHeightMultiplier # 0 THEN lineHeightMultiplier ELSE LineHeightTenths)

\* mutant: a line that fits in part is counted
maxLinesAtPartial(height, candidateSize, lineHeightMultiplier) ==
  Max(1, 1 + height \div
               Max(candidateLineHeight(candidateSize, lineHeightMultiplier), Pt))

maxLinesAt(height, candidateSize, lineHeightMultiplier) ==
  Max(1, height \div
           Max(candidateLineHeight(candidateSize, lineHeightMultiplier), Pt))

HasInk(lines) == \E i \in 1..Len(lines) : trim(lines[i]) # <<>>

\* mutant: slice(2), the second line is lost
remainingLinesSkip(trimmedLines) ==
  stripLeadingEmptyLines(sliceFrom(trimmedLines, 2))

\* const remaining = stripLeadingEmptyLines(trimmedLines.slice(1))
remainingLines(trimmedLines) ==
  stripLeadingEmptyLines(sliceFrom(trimmedLines, 1))

\* mutant: slice(0, maxLines + 1), one line too many is kept
fieldLinesOfExtra(trimmedLines, maxLines) == sliceTo(trimmedLines, maxLines + 1)

\* const fieldLines = trimmedLines.slice(0, maxLines)
fieldLinesOf(trimmedLines, maxLines) == sliceTo(trimmedLines, maxLines)

\* mutant: slice(maxLines + 1), the first overflow line is lost
overflowLinesOfSkip(trimmedLines, maxLines) ==
  stripLeadingEmptyLines(sliceFrom(trimmedLines, maxLines + 1))

\* const overflowLines = stripLeadingEmptyLines(trimmedLines.slice(maxLines))
overflowLinesOf(trimmedLines, maxLines) ==
  stripLeadingEmptyLines(sliceFrom(trimmedLines, maxLines))

\* the result of buildLayout for the wrapped lines, trailing empty ones dropped
layoutOfLines(trimmedLines, multiline, lineHeightMultiplier, height, candidateSize) ==
  IF ~multiline
  THEN [fieldText |-> IF trimmedLines = <<>> THEN <<>> ELSE trimmedLines[1],
        overflowText |-> trim(join(remainingLines(trimmedLines))),
        overflowDetected |-> HasInk(remainingLines(trimmedLines)),
        totalLines |-> Len(trimmedLines),
        displayedLines |-> 1,
        lineHeight |-> candidateLineHeight(candidateSize, lineHeightMultiplier),
        appliedFontSize |-> candidateSize]
  ELSE With(maxLinesAt(height, candidateSize, lineHeightMultiplier),
            LAMBDA maxLines :
              [fieldText |-> join(fieldLinesOf(trimmedLines, maxLines)),
               overflowText |->
                 trim(join(overflowLinesOf(trimmedLines, maxLines))),
               overflowDetected |->
                 HasInk(overflowLinesOf(trimmedLines, maxLines)),
               totalLines |-> Len(trimmedLines),
               displayedLines |-> Len(fieldLinesOf(trimmedLines, maxLines)),
               lineHeight |->
                 candidateLineHeight(candidateSize, lineHeightMultiplier),
               appliedFontSize |-> candidateSize])

buildLayout(text, font, multiline, lineHeightMultiplier, width, height, candidateSize) ==
  layoutOfLines(
    stripTrailingEmptyLines(
      wrapTextToWidth(text, font, candidateSize, Num(width))),
    multiline, lineHeightMultiplier, height, candidateSize)

\* the early return of layoutTextForField when no font or widget is given
unwrappedLayout(text, fontSize, lineHeightMultiplier) ==
  With(IF text # <<>> THEN splitLines(text) ELSE << <<>> >>,
       LAMBDA lines :
         [fieldText |-> join(lines),
          overflowText |-> <<>>,
          overflowDetected |-> FALSE,
          totalLines |-> Len(lines),
          displayedLines |-> Len(lines),
          lineHeight |-> fontSize * lineHeightMultiplier,
          appliedFontSize |-> fontSize])

\* mutant: the step is a whole point
shrinkSizeWholePoint(size, minSize) == Max(minSize, size - 2)

\* workingSize = Math.max(minFontSize, workingSize - 0.5)
shrinkSize(size, minSize) == Max(minSize, size - 1)

NoLayout == [fieldText |-> <<>>, overflowText |-> <<>>,
             overflowDetected |-> FALSE, totalLines |-> 0,
             displayedLines |-> 0, lineHeight |-> 0, appliedFontSize |-> 0]

\* ---- the note of a checklist row
ExampleSentence ==
  <<"C", "a", "b", "i", "n", "e", "t", " ", "B", "2", " ", "f", "a", "n",
  " ", "r", "e", "p", "l", "a", "c", "e", "d", " ", "a", "n", "d", " ", "t",
  "e", "s", "t", "e", "d", " ", "u", "n", "d", "e", "r", " ", "l", "o", "a",
  "d", " ", "f", "o", "r", " ", "t", "h", "i", "r", "t", "y", " ", "m", "i",
  "n", "u", "t", "e", "s", " ", "t", "h", "i", "s", " ", "m", "o", "r", "n",
  "i", "n", "g">>

\* the rectangle of the note field: 150pt wide, or 150pt wide within its
\* padding, and from 28 to 39pt high: two lines of 12pt and the padding, and
\* less than three
ExampleRectangles ==
  {[x1 |-> 40, y1 |-> 100, x2 |-> 40 + w, y2 |-> 100 + h] :
     w \in {150, 150 + TEXT_FIELD_INNER_PADDING * 2}, h \in 28..39}

\* ------------------------------------------------------ employee roster
EMPLOYEE_MAX_COUNT == 20
MaxEmployees == 2
MaxMinutes == 545

\* JavaScript values of a request body.  A string that matches the date-time
\* pattern of parseLocalDateTime is kept as its captured groups (second = -1:
\* the optional group is absent); any other string is its characters.
Undefined == [kind |-> "undefined"]
Null == [kind |-> "null"]
Text(chars) == [kind |-> "string", chars |-> chars]
DateTimeText(day, hour, minute, second) ==
  [kind |-> "datetime", day |-> day, hour |-> hour, minute |-> minute,
   second |-> second]
Array(items) == [kind |-> "array", items |-> items]
Object(name, role, arrival, departure) ==
  [kind |-> "object", name |-> name, role |-> role, arrival |-> arrival,
   departure |-> departure]
EmptyString == Text(<<>>)

\* JavaScript numbers that are not finite: NaN, Infinity, -Infinity
NonFinite == {[finite |-> FALSE, val |-> n] : n \in {0 - 1, 0, 1}}

Truthy(v) ==
  CASE v.kind \in {"undefined", "null"} -> FALSE
    [] v.kind = "string" -> v.chars # <<>>
    [] OTHER -> TRUE

toSingleValue(v) ==
  IF v.kind = "array"
  THEN IF Len(v.items) > 0 THEN v.items[Len(v.items)] ELSE Undefined
  ELSE v

\* String(value).trim() of a string value
stringTrim(v) == IF v.kind = "string" THEN Text(trim(v.chars)) ELSE v

\* toSingleValue(x) ? String(toSingleValue(x)).trim() : ''
trimmedOrEmpty(v) ==
  IF Truthy(toSingleValue(v)) THEN stringTrim(toSingleValue(v)) ELSE EmptyString

\* A Date is its number of seconds since the start of the month the model
\* plays in (a month of 31 days, no daylight-saving change); NoDate is null.
NoDate == 0 - 1
DateOf(day, hour, minute, second) ==
  (((day - 1) * 24 + hour) * 60 + minute) * 60 + second
InMonth(date) == date >= 0 /\ date < 31 * 86400
getDate(date) == date \div 86400 + 1
getHours(date) == (date \div 3600) % 24
getMinutes(date) == (date \div 60) % 60

parseLocalDateTime(v) ==
  IF v.kind # "datetime" THEN NoDate
  ELSE With(DateOf(v.day, v.hour, v.minute,
                   IF v.second >= 0 THEN v.second ELSE 0),
            LAMBDA date :
              IF ~InMonth(date) \/ getDate(date) # v.day
                 \/ getHours(date) # v.hour \/ getMinutes(date) # v.minute
              THEN NoDate
              ELSE date)

formatIsoFromDate(date) ==
  DateTimeText(getDate(date), getHours(date), getMinutes(date), 0 - 1)

\* Math.round((later - earlier) / 60000), both in seconds here
roundMinutes(later, earlier) == (2 * (later - earlier) + 60) \div 120

\* mutant: the tier bounds are exclusive
determineBreakRequirementExclusive(minutes) ==
  IF ~minutes.finite \/ minutes.val <= 0
  THEN [code |-> "UNKNOWN", minutes |-> 0]
  ELSE IF minutes.val < 6 * 60 THEN [code |-> "NONE", minutes |-> 0]
  ELSE IF minutes.val < 9 * 60 THEN [code |-> "MIN30", minutes |-> 30]
  ELSE [code |-> "MIN45", minutes |-> 45]

determineBreakRequirement(minutes) ==
  IF ~minutes.finite \/ minutes.val <= 0
  THEN [code |-> "UNKNOWN", minutes |-> 0]
  ELSE IF minutes.val <= 6 * 60 THEN [code |-> "NONE", minutes |-> 0]
  ELSE IF minutes.val <= 9 * 60 THEN [code |-> "MIN30", minutes |-> 30]
  ELSE [code |-> "MIN45", minutes |-> 45]

\* mutant: an arrival that does not parse gets the fallback duration too
ensureFutureDepartureNoGuard(arrivalIso, departureIso) ==
  With(parseLocalDateTime(arrivalIso), LAMBDA arrivalDate :
  With(parseLocalDateTime(departureIso), LAMBDA departureDate :
  With(IF departureDate # NoDate
       THEN roundMinutes(departureDate, arrivalDate) ELSE 0, LAMBDA minutes :
    IF arrivalDate = NoDate
    THEN [arrivalIso |-> arrivalIso, departureIso |-> departureIso,
          minutes |-> 60]
    ELSE IF departureDate = NoDate \/ minutes <= 0
    THEN [arrivalIso |-> formatIsoFromDate(arrivalDate),
          departureIso |-> formatIsoFromDate(arrivalDate + 60 * 60),
          minutes |-> 60]
    ELSE [arrivalIso |-> formatIsoFromDate(arrivalDate),
          departureIso |-> formatIsoFromDate(departureDate),
          minutes |-> minutes])))

ensureFutureDeparture(arrivalIso, departureIso) ==
  With(parseLocalDateTime(arrivalIso), LAMBDA arrivalDate :
  With(parseLocalDateTime(departureIso), LAMBDA departureDate :
  With(IF departureDate # NoDate
       THEN roundMinutes(departureDate, arrivalDate) ELSE 0, LAMBDA minutes :
    IF arrivalDate = NoDate
    THEN [arrivalIso |-> arrivalIso, departureIso |-> departureIso,
          minutes |-> 0]
    ELSE IF departureDate = NoDate \/ minutes <= 0
    THEN [arrivalIso |-> formatIsoFromDate(arrivalDate),
          departureIso |-> formatIsoFromDate(arrivalDate + 60 * 60),
          minutes |-> 60]
    ELSE [arrivalIso |-> formatIsoFromDate(arrivalDate),
          departureIso |-> formatIsoFromDate(departureDate),
          minutes |-> minutes])))

\* appendSource over the items of body.employees, index hint = position
RECURSIVE appendSources(_, _, _)
appendSources(items, idx, sources) ==
  IF idx > Len(items) THEN sources
  ELSE appendSources(items, idx + 1,
         IF items[idx].kind \in {"undefined", "null"} THEN sources
         ELSE Append(sources, [index |-> idx - 1, value |-> items[idx]]))

nonBlank(v) == Truthy(v) /\ ~(v.kind = "string" /\ trim(v.chars) = <<>>)

\* the loop over employee_name_1 .. employee_name_20 and their siblings
RECURSIVE flatSources(_, _, _)
flatSources(flat, i, sources) ==
  IF i > EMPLOYEE_MAX_COUNT THEN sources
  ELSE LET slot == IF i <= Len(flat) THEN flat[i]
                   ELSE Object(Undefined, Undefined, Undefined, Undefined)
           record == Object(toSingleValue(slot.name), toSingleValue(slot.role),
                            toSingleValue(slot.arrival),
                            toSingleValue(slot.departure))
       IN flatSources(flat, i + 1,
            IF nonBlank(record.name) \/ nonBlank(record.role)
               \/ nonBlank(record.arrival) \/ nonBlank(record.departure)
            THEN Append(sources, [index |-> i - 1, value |-> record])
            ELSE sources)

\* sources.sort((a, b) => a.index - b.index), a stable sort
RECURSIVE insertByIndex(_, _)
insertByIndex(sorted, source) ==
  IF sorted = <<>> THEN <<source>>
  ELSE IF sorted[Len(sorted)].index <= source.index THEN Append(sorted, source)
  ELSE Append(insertByIndex(SubSeq(sorted, 1, Len(sorted) - 1), source),
              sorted[Len(sorted)])

RECURSIVE sortByIndex(_)
sortByIndex(sources) ==
  IF sources = <<>> THEN <<>>
  ELSE insertByIndex(sortByIndex(SubSeq(sources, 1, Len(sources) - 1)),
                     sources[Len(sources)])

\* body.employees parsed into an object: its keys are whole numbers, which
\* Object.keys lists in ascending order; the index hint is the key
Map(entries) == [kind |-> "map", entries |-> entries]

RECURSIVE keyedSources(_, _, _)
keyedSources(entries, idx, sources) ==
  IF idx > Len(entries) THEN sources
  ELSE keyedSources(entries, idx + 1,
         IF entries[idx].value.kind \in {"undefined", "null"} THEN sources
         ELSE Append(sources, [index |-> entries[idx].key,
                               value |-> entries[idx].value]))

collectSources(body) ==
  With(IF body.employees.kind = "array"
       THEN appendSources(sliceTo(body.employees.items, EMPLOYEE_MAX_COUNT),
                          1, <<>>)
       ELSE IF body.employees.kind = "map"
       THEN keyedSources(sliceTo(body.employees.entries, EMPLOYEE_MAX_COUNT),
                         1, <<>>)
       ELSE <<>>, LAMBDA fromEmployees :
    IF fromEmployees # <<>> THEN fromEmployees
    ELSE flatSources(body.flat, 1, <<>>))

\* const record = value && typeof value === 'object' ? value : { name: value }
recordOf(v) ==
  IF Truthy(v) /\ v.kind = "object" THEN v
  ELSE Object(v, Undefined, Undefined, Undefined)

EmptySummary ==
  [entries |-> <<>>, totalMinutes |-> 0, totalBreakMinutes |-> 0,
   breakStats |-> [NONE |-> 0, MIN30 |-> 0, MIN45 |-> 0, UNKNOWN |-> 0]]

\* mutant: every entry is counted as pending
appendEntryPending(summary, index, name, role, normalized) ==
  With(determineBreakRequirement(Num(normalized.minutes)), LAMBDA breakInfo :
    [entries |->
       Append(summary.entries,
              [index |-> index + 1,
               name |-> name,
               role |-> role,
               arrival |-> normalized.arrivalIso,
               departure |-> normalized.departureIso,
               durationMinutes |-> normalized.minutes,
               breakCode |-> breakInfo.code,
               breakRequiredMinutes |-> breakInfo.minutes]),
     totalMinutes |-> summary.totalMinutes + normalized.minutes,
     totalBreakMinutes |-> summary.totalBreakMinutes + breakInfo.minutes,
     breakStats |-> [summary.breakStats EXCEPT !.UNKNOWN = @ + 1]])

\* sources.forEach, from the defaulting of the times on
appendEntry(summary, index, name, role, normalized) ==
  With(determineBreakRequirement(Num(normalized.minutes)), LAMBDA breakInfo :
    [entries |->
       Append(summary.entries,
              [index |-> index + 1,
               name |-> name,
               role |-> role,
               arrival |-> normalized.arrivalIso,
               departure |-> normalized.departureIso,
               durationMinutes |-> normalized.minutes,
               breakCode |-> breakInfo.code,
               breakRequiredMinutes |-> breakInfo.minutes]),
     totalMinutes |-> summary.totalMinutes + normalized.minutes,
     totalBreakMinutes |-> summary.totalBreakMinutes + breakInfo.minutes,
     breakStats |-> [summary.breakStats EXCEPT ![breakInfo.code] = @ + 1]])

\* parseLocalDateTime(arrivalIso) || now
arrivalDateOf(arrivalIso, now) ==
  With(parseLocalDateTime(arrivalIso), LAMBDA arrivalDate :
    IF arrivalDate # NoDate THEN arrivalDate ELSE now)

processFields(summary, index, name, role, arrivalGiven, departureGiven, now) ==
  With(IF ~Truthy(arrivalGiven)
          /\ (Truthy(name) \/ Truthy(role) \/ Truthy(departureGiven))
       THEN formatIsoFromDate(now) ELSE arrivalGiven, LAMBDA arrivalIso :
  With(IF ~Truthy(departureGiven) /\ Truthy(arrivalIso)
       THEN formatIsoFromDate(arrivalDateOf(arrivalIso, now) + 60 * 60)
       ELSE departureGiven, LAMBDA departureIso :
    IF ~Truthy(name) /\ ~Truthy(role) /\ ~Truthy(arrivalIso)
       /\ ~Truthy(departureIso)
    THEN summary
    ELSE appendEntry(summary, index, name, role,
                     ensureFutureDeparture(arrivalIso, departureIso))))

\* the body of sources.forEach for one source
processSource(summary, source, now) ==
  With(recordOf(source.value), LAMBDA record :
    processFields(summary, source.index,
                  trimmedOrEmpty(record.name), trimmedOrEmpty(record.role),
                  trimmedOrEmpty(record.arrival),
                  trimmedOrEmpty(record.departure), now))

RECURSIVE processSources(_, _, _)
processSources(summary, sources, now) ==
  IF sources = <<>> \/ ~Evaluated(summary) THEN summary
  ELSE processSources(processSource(summary, Head(sources), now),
                      Tail(sources), now)

\* the second declaration of collectEmployeeEntries, the one in effect
collectEmployeeEntries(body, now) ==
  IF body.kind # "object" THEN EmptySummary
  ELSE processSources(
         EmptySummary,
         sliceTo(sortByIndex(collectSources(body)), EMPLOYEE_MAX_COUNT), now)

\* a property of null or undefined is read: TypeError
throwsTypeError(body) ==
  /\ body.kind = "object"
  /\ \E sources \in {sortByIndex(collectSources(body))} :
       \E i \in 1..Len(sources) :
         recordOf(sources[i].value).kind \in {"undefined", "null"}

\* ---- request bodies
ArrivalTexts ==
  {Undefined, Text(<<"a">>), DateTimeText(1, 9, 0, 0 - 1),
   DateTimeText(1, 9, 70, 0 - 1)}
DepartureTexts ==
  {Undefined, Text(<<"b">>), DateTimeText(1, 9, 0, 0 - 1),
   DateTimeText(1, 8, 59, 31), DateTimeText(1, 15, 1, 0 - 1)}

Records ==
  {Object(Text(<<"a", "b">>), Undefined, a, d) :
     a \in ArrivalTexts, d \in DepartureTexts}
  \cup {Object(Undefined, Undefined, Undefined, Undefined),
        Object(Text(<<" ">>), Undefined, Undefined, Undefined),
        Object(Undefined, Text(<<"b">>), Undefined, Undefined),
        Object(Undefined, Undefined, DateTimeText(1, 9, 0, 0 - 1), Undefined),
        Object(Undefined, Undefined, Undefined, DateTimeText(1, 9, 0, 0 - 1)),
        Object(Array(<<Text(<<"b">>), Text(<<"a">>)>>), Undefined, Undefined,
               Array(<<Text(<<"b">>), DateTimeText(1, 15, 1, 0 - 1)>>))}

Items == Records \cup {Null, Text(<<"a">>)}

RECURSIVE SeqsUpTo(_, _)
SeqsUpTo(S, n) ==
  IF n = 0 THEN {<<>>}
  ELSE SeqsUpTo(S, n - 1) \cup
       {Append(q, x) : q \in {r \in SeqsUpTo(S, n - 1) : Len(r) = n - 1}, x \in S}

\* more employees than EMPLOYEE_MAX_COUNT: a visit of six hours and a minute,
\* and every other one without a departure
Crowd ==
  [i \in 1..(EMPLOYEE_MAX_COUNT + 1) |->
     Object(Text(<<"a", "b">>), Undefined, DateTimeText(1, 9, 0, 0 - 1),
            IF i % 2 = 1 THEN DateTimeText(1, 15, 1, 0 - 1) ELSE Undefined)]

\* as an array, as an object with the keys 25, 26, ..., and as flat fields
CrowdedBodies ==
  {[kind |-> "object", employees |-> Array(Crowd), flat |-> <<>>],
   [kind |-> "object",
    employees |-> Map([i \in 1..Len(Crowd) |->
                         [key |-> 24 + i, value |-> Crowd[i]]]),
    flat |-> <<>>],
   [kind |-> "object", employees |-> Undefined, flat |-> Crowd]}

\* req.body || {}: an object, with employees[i][field] parsed into an array
\* or with the flat employee_<field>_<i> keys
Bodies ==
  {[kind |-> "object", employees |-> Array(items), flat |-> <<>>] :
     items \in SeqsUpTo(Items, MaxEmployees)}
  \cup {[kind |-> "object", employees |-> Undefined, flat |-> flat] :
          flat \in SeqsUpTo(Records, MaxEmployees) \ {<<>>}}
  \cup CrowdedBodies
  \cup {Null, Text(<<"a">>)}

\* new Date()
Clocks == {DateOf(1, 12, 0, 20), DateOf(1, 23, 30, 40)}

\* ------------------------------------------------- layout of table cells
\* the tolerance of 0.1 point in computeLayout, as a width
FitTolerance == WidthPt \div 10

RECURSIVE maxLineWidthOf(_, _)
maxLineWidthOf(lines, size) ==
  IF lines = <<>> THEN 0
  ELSE Max(widthOfTextAtSize(Head(lines), size),
           maxLineWidthOf(Tail(lines), size))

\* the result of computeLayout for the wrapped lines
layoutOfCandidate(candidateLines, size, lineHeightMultiplier, maxWidth) ==
  With(IF candidateLines # <<>> THEN candidateLines ELSE << <<>> >>,
       LAMBDA normalizedLines :
         [lines |-> normalizedLines,
          fontSize |-> size,
          lineHeight |-> size * lineHeightMultiplier,
          lineCount |-> Len(normalizedLines),
          fits |-> maxLineWidthOf(normalizedLines, size)
                     <= maxWidth + FitTolerance])

\* mutant: a line wider than maxWidth is cut out
computeLayoutClipped(text, font, size, lineHeightMultiplier, maxWidth) ==
  layoutOfCandidate(
    SelectSeq(wrapTextToWidth(text, font, size, Num(maxWidth)),
              LAMBDA line : widthOfTextAtSize(line, size) <= maxWidth),
    size, lineHeightMultiplier, maxWidth)

computeLayout(text, font, size, lineHeightMultiplier, maxWidth) ==
  layoutOfCandidate(wrapTextToWidth(text, font, size, Num(maxWidth)),
                    size, lineHeightMultiplier, maxWidth)

\* the while loop of layoutTextForWidth, from workingSize on
RECURSIVE shrinkToWidth(_, _, _, _, _, _)
shrinkToWidth(text, font, workingSize, minFontSize, lineHeightMultiplier, maxWidth) ==
  With(computeLayout(text, font, workingSize, lineHeightMultiplier, maxWidth),
       LAMBDA layout :
         IF ~layout.fits /\ workingSize > minFontSize
         THEN shrinkToWidth(text, font, Max(minFontSize, workingSize - 1),
                            minFontSize, lineHeightMultiplier, maxWidth)
         ELSE layout)

\* maxWidth is a JavaScript number: [finite, val], val a width when finite
layoutTextForWidth(text, font, fontSize, minFontSize, lineHeightMultiplier, maxWidth) ==
  IF unmeasurable(font, maxWidth)
  THEN With(IF text # <<>> THEN splitLines(text) ELSE << <<>> >>,
            LAMBDA lines :
              [lines |-> lines,
               fontSize |-> fontSize,
               lineHeight |-> fontSize * lineHeightMultiplier,
               lineCount |-> IF Len(lines) # 0 THEN Len(lines) ELSE 1])
  ELSE With(shrinkToWidth(text, font, fontSize, minFontSize,
                          lineHeightMultiplier, maxWidth.val),
            LAMBDA layout :
              With(stripTrailingEmptyLines(layout.lines),
                   LAMBDA finalLines :
                     [lines |-> finalLines,
                      fontSize |-> layout.fontSize,
                      lineHeight |-> layout.lineHeight,
                      lineCount |->
                        IF Len(finalLines) # 0 THEN Len(finalLines) ELSE 1]))

\* the widths layoutTextForWidth is called with, in points, and beside them
\* a width of 0 and a width that is not a number
CellWidths == {0, 2, 5, 12}
MaxWidths ==
  {[finite |-> TRUE, val |-> WidthPt * w] : w \in CellWidths}
  \cup {[finite |-> FALSE, val |-> 0]}

\* the font sizes layoutTextForWidth is called with: cells and notes (10, 7),
\* header labels (9, 8) and checklist actions (10, 9)
CellStyles ==
  {[fontSize |-> HalfPt(10), minFontSize |-> HalfPt(7)],
   [fontSize |-> HalfPt(9), minFontSize |-> HalfPt(8)],
   [fontSize |-> HalfPt(10), minFontSize |-> HalfPt(9)]}

NoCellLayout == [lines |-> <<>>, fontSize |-> 0, lineHeight |-> 0, lineCount |-> 0]

\* -------------------------------------------------------- parts rows
PARTS_ROW_COUNT == 15
MaxPartsRows == 2

PARTS_FIELD_PREFIXES ==
  {"parts_removed_desc_", "parts_removed_part_", "parts_removed_serial_",
   "parts_used_part_", "parts_used_serial_"}

\* the five fields body[`${prefix}${index}`] of one parts row slot
PartsSlot(desc, part, serial, usedPart, usedSerial) ==
  [parts_removed_desc_ |-> desc, parts_removed_part_ |-> part,
   parts_removed_serial_ |-> serial, parts_used_part_ |-> usedPart,
   parts_used_serial_ |-> usedSerial]
AbsentSlot == PartsSlot(Undefined, Undefined, Undefined, Undefined, Undefined)

\* mutant: the value is kept without trimming
normalizedUntrimmed(v) ==
  LET single == toSingleValue(v) IN
  IF single.kind \in {"undefined", "null"} THEN <<>> ELSE single.chars

\* value !== undefined && value !== null ? String(value).trim() : ''
normalized(v) ==
  LET single == toSingleValue(v) IN
  IF single.kind \in {"undefined", "null"} THEN <<>> ELSE trim(single.chars)

\* body.parts[index] holds the fields of slot index that the request sent
collectPartsRowUsage(body) ==
  [index \in 1..PARTS_ROW_COUNT |->
     LET slot == IF index <= Len(body.parts) THEN body.parts[index]
                 ELSE AbsentSlot
         fields == [prefix \in PARTS_FIELD_PREFIXES |-> normalized(slot[prefix])]
     IN [number |-> index,
         fields |-> fields,
         hasData |-> \E prefix \in PARTS_FIELD_PREFIXES : fields[prefix] # <<>>]]

\* the slots a request may send: nothing; white space only, with a repeated
\* field whose last value is blank; one padded field; a value of three lines
PartsSlots ==
  {AbsentSlot,
   PartsSlot(Text(<<" ">>), EmptyString, Undefined, Text(<<NL>>),
             Array(<<Text(<<"a">>), Text(<<" ">>)>>)),
   PartsSlot(Undefined, Undefined, Text(<<" ", "a", " ">>), Undefined, Undefined),
   PartsSlot(Text(<<"a", NL, "a", NL, "a">>), Text(<<"i">>), Undefined,
             Undefined, Undefined)}

\* ------------------------------------------------------ sign-off pages
\* Page coordinates are counted in hundredths of a point, as page sizes are
\* given to two decimals.  Row heights are whole points.
PagePt == Pt * 5
margin == 56

\* the templates a deployment may use: the three A4 pages generate-template.js
\* makes, and two short pages of the same width, which have no page at
\* PARTS_TABLE_LAYOUT.pageIndex
PageWidth == 59528
PARTS_TABLE_LAYOUT == [pageIndex |-> 2]
Templates ==
  {[pages |-> 3, size |-> [width |-> PageWidth, height |-> 84189]],
   [pages |-> 2, size |-> [width |-> PageWidth, height |-> 23000]]}

\* page.getWidth() - margin * 2
tableWidth == PageWidth - margin * 2 * PagePt

\* Math.ceil of a height, in points
CeilPt(height) == (height + Pt - 1) \div Pt

\* tableWidth * ratio - 8 as a width, rounded down: the width of a line is
\* a whole number of width units
columnMaxWidth(width, ratioPercent) ==
  (width * ratioPercent * (WidthPt \div PagePt)) \div 100 - 8 * WidthPt

\* what page.drawText and page.drawRectangle leave on the pages: the page
\* heading, a section title, a table header row, a table row, a line of
\* text, the boxes of the details and of the signatures
Mark(op, section, label, number, page, y, height) ==
  [op |-> op, section |-> section, label |-> label, number |-> number,
   page |-> page, y |-> y, height |-> height]

\* pen: the document's page count, the current page, cursorY and the marks
setCurrentPage(pen, size, target, heading) ==
  [pen EXCEPT !.page = target,
              !.cursorY = size.height - margin * PagePt - 26 * PagePt,
              !.drawn = Append(@, Mark("heading", "", heading, 0, target,
                                       size.height - margin * PagePt, 18))]

addPageWithHeading(pen, size, heading) ==
  setCurrentPage([pen EXCEPT !.pageCount = @ + 1], size, pen.pageCount + 1,
                 heading)

addContinuationPage(pen, size, heading) == addPageWithHeading(pen, size, heading)

\* mutant: the required height is left out of the comparison
ensureSpaceAtMargin(pen, size, requiredHeight, heading) ==
  IF pen.cursorY < margin * PagePt
  THEN addContinuationPage(pen, size, heading)
  ELSE pen

\* the result is the pen after the call; the call returned a page when the
\* page count has grown
ensureSpace(pen, size, requiredHeight, heading) ==
  IF pen.cursorY - requiredHeight * PagePt < margin * PagePt
  THEN addContinuationPage(pen, size, heading)
  ELSE pen

DefaultHeading == "Maintenance Summary (cont.)"
Cont(title) == title \o " (cont.)"

drawSectionTitle(pen, section, label) ==
  [pen EXCEPT !.cursorY = @ - 18 * PagePt,
              !.drawn = Append(@, Mark("title", section, label, 0, pen.page,
                                       pen.cursorY, 18))]

\* drawPartsHeader and the two drawHeaderRow: headerHeight is 18 in each
drawHeaderRow(pen, section) ==
  [pen EXCEPT !.cursorY = @ - 18 * PagePt,
              !.drawn = Append(@, Mark("header", section, "", 0, pen.page,
                                       pen.cursorY, 18))]

\* the rectangles and the text of one table row, then cursorY -= rowHeight
drawRow(pen, section, number, rowHeight) ==
  [pen EXCEPT !.cursorY = @ - rowHeight * PagePt,
              !.drawn = Append(@, Mark("row", section, "", number, pen.page,
                                       pen.cursorY, rowHeight))]

\* page.drawText(label) at the cursor, then cursorY -= step
drawLine(pen, section, label, step) ==
  [pen EXCEPT !.cursorY = @ - step * PagePt,
              !.drawn = Append(@, Mark("text", section, label, 0, pen.page,
                                       pen.cursorY, step))]

\* the boxes of a section, drawn below the cursor, which stays
drawBoxes(pen, section, boxHeight) ==
  [pen EXCEPT !.drawn = Append(@, Mark("boxes", section, "", 0, pen.page,
                                       pen.cursorY, boxHeight))]

ensured(pen, after) == after.pageCount # pen.pageCount

\* ---- parts record
PartsColumns == <<"parts_removed_desc_", "parts_removed_part_",
                 "parts_removed_serial_", "parts_used_part_",
                 "parts_used_serial_">>
PartsRatios == <<32, 18, 18, 18, 14>>

\* (partsRows || []).filter((row) => row.hasData)
RECURSIVE usedRowsFrom(_, _)
usedRowsFrom(partsRows, index) ==
  IF index > Len(partsRows) THEN <<>>
  ELSE IF partsRows[index].hasData
       THEN <<partsRows[index]>> \o usedRowsFrom(partsRows, index + 1)
       ELSE usedRowsFrom(partsRows, index + 1)
usedRowsOf(partsRows) == usedRowsFrom(partsRows, 1)

\* Math.ceil(layout.lineCount * layout.lineHeight + 8)
cellHeight(measured) == CeilPt(measured.lineCount * measured.lineHeight + 8 * Pt)

RECURSIVE MaxOf(_, _)
MaxOf(floor, heights) ==
  IF heights = <<>> THEN floor
  ELSE MaxOf(Max(floor, Head(heights)), Tail(heights))

partsRowHeight(row, font) ==
  MaxOf(22,
        [index \in 1..Len(PartsColumns) |->
           cellHeight(layoutTextForWidth(
             row.fields[PartsColumns[index]], font, HalfPt(DefaultFontSize),
             HalfPt(DefaultMinFontSize), LineHeightTenths,
             Num(columnMaxWidth(tableWidth, PartsRatios[index]))))])

\* ---- on-site team
\* layoutMultilineText: its totalHeight, summed over the segments between
\* line breaks and over the lines of each segment
RECURSIVE segmentsHeight(_, _, _, _, _, _)
segmentsHeight(segments, font, maxWidth, fontSize, minFontSize, multiplier) ==
  IF segments = <<>> THEN 0
  ELSE With(layoutTextForWidth(Head(segments), font, fontSize, minFontSize,
                               multiplier, Num(maxWidth)),
            LAMBDA segmentLayout :
              IF segmentLayout.lines = <<>> THEN fontSize * multiplier
              ELSE Len(segmentLayout.lines) * segmentLayout.lineHeight)
       + segmentsHeight(Tail(segments), font, maxWidth, fontSize,
                        minFontSize, multiplier)

layoutMultilineText(text, font, maxWidth, fontSize, minFontSize, multiplier) ==
  [totalHeight |-> segmentsHeight(splitLines(text), font, maxWidth, fontSize,
                                  minFontSize, multiplier)]

TeamRatios == <<5, 22, 17, 16, 16, 24>>
OrDashes(text) == IF text # <<>> THEN text ELSE <<"-", "-">>

\* the six cells of an entry's row
teamCells(entry, index) ==
  <<<<ToString(index)>>, OrDashes(entry.name), OrDashes(entry.role),
    OrDashes(entry.arrivalDisplay), OrDashes(entry.departureDisplay),
    IF entry.breakLabel # <<>>
    THEN entry.durationLabel \o <<NL>> \o entry.breakLabel
    ELSE entry.durationLabel>>

teamRowHeight(entry, index, font) ==
  MaxOf(22,
        [idx \in 1..Len(TeamRatios) |->
           CeilPt(layoutMultilineText(
                    teamCells(entry, index)[idx], font,
                    Max(4 * WidthPt, columnMaxWidth(tableWidth, TeamRatios[idx])),
                    HalfPt(DefaultFontSize), HalfPt(DefaultMinFontSize),
                    LineHeightTenths).totalHeight + 12 * Pt)])

\* the entries of options.employees: nobody, or the first entries of a
\* roster, with the labels formatEmployeeDuration and determineBreakRequirement
\* give them
TeamEntry(name, durationLabel, breakLabel) ==
  [name |-> name, role |-> <<>>,
   arrivalDisplay |-> <<"2", "0", "2", "6", "-", "0", "1", "-", "0", "1", " ",
                        "0", "9", ":", "0", "0">>,
   departureDisplay |-> <<>>,
   durationLabel |-> durationLabel, breakLabel |-> breakLabel]
Roster ==
  <<TeamEntry(<<"a">>, <<"1", "h">>,
      <<"N", "o", " ", "m", "a", "n", "d", "a", "t", "o", "r", "y", " ", "b",
      "r", "e", "a", "k", " ", "(", "<", "=", "6", "h", ")">>),
    TeamEntry(<<"i">>, <<"7", "h", " ", "5", "m">>,
      <<">", "=", "3", "0", "m", " ", "(", "6", "-", "9", "h", ",", " ", "2",
      "x", "1", "5", "m", " ", "a", "l", "l", "o", "w", "e", "d", ")">>),
    TeamEntry(<<>>, <<"0", "m">>,
      <<"P", "e", "n", "d", "i", "n", "g", " ", "(", "s", "e", "t", " ", "a",
      "r", "r", "i", "v", "a", "l", " ", "&", " ", "d", "e", "p", "a", "r",
      "t", "u", "r", "e", ")">>)>>
Rosters == {<<>>, sliceTo(Roster, MaxEmployees)}

\* ---- checklists
CHECKLIST_SECTIONS ==
  <<[title |-> "LED display checks", rows |-> <<
     [action |->
        <<"C", "h", "e", "c", "k", " ", "f", "o", "r", " ", "a", "n", "y", " ",
        "v", "i", "s", "i", "b", "l", "e", " ", "i", "s", "s", "u", "e", "s",
        ".", " ", "R", "e", "s", "o", "l", "v", "e", " ", "a", "s", " ", "n",
        "e", "c", "e", "s", "s", "a", "r", "y", ".">>,
      checkbox |-> "led_complete_1", notes |-> "led_notes_1"],
     [action |->
        <<"A", "p", "p", "l", "y", " ", "t", "e", "s", "t", " ", "p", "a", "t",
        "t", "e", "r", "n", " ", "o", "n", " ", "f", "u", "l", "l", " ", "r",
        "e", "d", ",", " ", "g", "r", "e", "e", "n", ",", " ", "b", "l", "u",
        "e", " ", "a", "n", "d", " ", "w", "h", "i", "t", "e", ".", " ", "I",
        "d", "e", "n", "t", "i", "f", "y", " ", "f", "a", "u", "l", "t", "s",
        ".">>,
      checkbox |-> "led_complete_2", notes |-> "led_notes_2"],
     [action |->
        <<"R", "e", "p", "l", "a", "c", "e", " ", "a", "n", "y", " ", "p", "i",
        "x", "e", "l", " ", "c", "a", "r", "d", "s", " ", "w", "i", "t", "h",
        " ", "d", "e", "a", "d", " ", "o", "r", " ", "n", "o", "n", "-", "f",
        "u", "n", "c", "t", "i", "o", "n", "i", "n", "g", " ", "p", "i", "x",
        "e", "l", "s", ".">>,
      checkbox |-> "led_complete_3", notes |-> "led_notes_3"],
     [action |->
        <<"C", "h", "e", "c", "k", " ", "p", "o", "w", "e", "r", " ", "a", "n",
        "d", " ", "d", "a", "t", "a", " ", "c", "a", "b", "l", "e", "s", " ",
        "b", "e", "t", "w", "e", "e", "n", " ", "c", "a", "b", "i", "n", "e",
        "t", "s", " ", "f", "o", "r", " ", "s", "e", "c", "u", "r", "e", " ",
        "c", "o", "n", "n", "e", "c", "t", "i", "o", "n", "s", ".">>,
      checkbox |-> "led_complete_4", notes |-> "led_notes_4"],
     [action |->
        <<"I", "n", "s", "p", "e", "c", "t", " ", "f", "o", "r", " ", "d", "a",
        "m", "a", "g", "e", " ", "a", "n", "d", " ", "r", "e", "p", "l", "a",
        "c", "e", " ", "a", "n", "y", " ", "d", "a", "m", "a", "g", "e", "d",
        " ", "o", "r", " ", "b", "r", "o", "k", "e", "n", " ", "c", "a", "b",
        "l", "e", "s", ".">>,
      checkbox |-> "led_complete_5", notes |-> "led_notes_5"],
     [action |->
        <<"C", "h", "e", "c", "k", " ", "m", "o", "n", "i", "t", "o", "r", "i",
        "n", "g", " ", "f", "e", "a", "t", "u", "r", "e", " ", "f", "o", "r",
        " ", "i", "s", "s", "u", "e", "s", ".", " ", "R", "e", "s", "o", "l",
        "v", "e", " ", "a", "s", " ", "n", "e", "c", "e", "s", "s", "a", "r",
        "y", ".">>,
      checkbox |-> "led_complete_6", notes |-> "led_notes_6"],
     [action |->
        <<"C", "h", "e", "c", "k", " ", "b", "r", "i", "g", "h", "t", "n", "e",
        "s", "s", " ", "l", "e", "v", "e", "l", "s", " ", "i", "n", " ", "c",
        "o", "n", "f", "i", "g", "u", "r", "a", "t", "o", "r", " ", "a", "n",
        "d", " ", "n", "o", "t", "e", " ", "l", "e", "v", "e", "l", "s", " ",
        "d", "o", "w", "n", ".">>,
      checkbox |-> "led_complete_7", notes |-> "led_notes_7"]>>],
    [title |-> "Control equipment", rows |-> <<
     [action |->
        <<"C", "h", "e", "c", "k", " ", "c", "o", "n", "t", "r", "o", "l", "l",
        "e", "r", "s", " ", "a", "r", "e", " ", "c", "o", "n", "n", "e", "c",
        "t", "e", "d", " ", "a", "n", "d", " ", "c", "a", "b", "l", "e", "s",
        " ", "s", "e", "a", "t", "e", "d", " ", "c", "o", "r", "r", "e", "c",
        "t", "l", "y", ".">>,
      checkbox |-> "control_complete_1", notes |-> "control_notes_1"],
     [action |->
        <<"C", "h", "e", "c", "k", " ", "c", "o", "n", "t", "r", "o", "l", "l",
        "e", "r", " ", "r", "e", "d", "u", "n", "d", "a", "n", "c", "y", ";",
        " ", "r", "e", "s", "o", "l", "v", "e", " ", "i", "s", "s", "u", "e",
        "s", " ", "w", "h", "e", "r", "e", " ", "n", "e", "c", "e", "s", "s",
        "a", "r", "y", ".">>,
      checkbox |-> "control_complete_2", notes |-> "control_notes_2"],
     [action |->
        <<"C", "h", "e", "c", "k", " ", "b", "r", "i", "g", "h", "t", "n", "e",
        "s", "s", " ", "l", "e", "v", "e", "l", "s", " ", "o", "n", " ", "c",
        "o", "n", "t", "r", "o", "l", "l", "e", "r", "s", " ", "a", "n", "d",
        " ", "n", "o", "t", "e", " ", "l", "e", "v", "e", "l", "s", ".">>,
      checkbox |-> "control_complete_3", notes |-> "control_notes_3"],
     [action |->
        <<"C", "h", "e", "c", "k", " ", "f", "a", "n", "s", " ", "o", "n", " ",
        "c", "o", "n", "t", "r", "o", "l", "l", "e", "r", "s", " ", "a", "r",
        "e", " ", "w", "o", "r", "k", "i", "n", "g", ".">>,
      checkbox |-> "control_complete_4", notes |-> "control_notes_4"],
     [action |->
        <<"C", "a", "r", "e", "f", "u", "l", "l", "y", " ", "w", "i", "p", "e",
        " ", "c", "l", "e", "a", "n", " ", "c", "o", "n", "t", "r", "o", "l",
        "l", "e", "r", "s", ".">>,
      checkbox |-> "control_complete_5", notes |-> "control_notes_5"]>>],
    [title |-> "Spare parts", rows |-> <<
     [action |->
        <<"R", "e", "p", "l", "a", "c", "e", " ", "p", "i", "x", "e", "l", " ",
        "c", "a", "r", "d", "s", " ", "i", "n", " ", "d", "i", "s", "p", "l",
        "a", "y", " ", "w", "i", "t", "h", " ", "s", "p", "a", "r", "e", " ",
        "c", "a", "r", "d", "s", " ", "(", "e", "n", "s", "u", "r", "e", " ",
        "z", "e", "r", "o", " ", "f", "a", "i", "l", "u", "r", "e", "s", ")",
        ".">>,
      checkbox |-> "spares_complete_1", notes |-> "spares_notes_1"],
     [action |->
        <<"C", "o", "m", "p", "l", "e", "t", "e", " ", "i", "n", "v", "e", "n",
        "t", "o", "r", "y", " ", "l", "o", "g", " ", "o", "f", " ", "s", "p",
        "a", "r", "e", " ", "p", "a", "r", "t", "s", ".">>,
      checkbox |-> "spares_complete_2", notes |-> "spares_notes_2"]>>]>>

SIGN_OFF_CHECKLIST_ROWS ==
  <<
   [action |->
      <<"L", "E", "D", " ", "e", "q", "u", "i", "p", "m", "e", "n", "t", " ",
      "m", "a", "i", "n", "t", "a", "i", "n", "e", "d", " ", "a", "n", "d",
      " ", "p", "r", "e", "v", "e", "n", "t", "a", "t", "i", "v", "e", " ",
      "w", "o", "r", "k", " ", "c", "o", "m", "p", "l", "e", "t", "e", "d",
      ".">>,
    checkbox |-> "signoff_complete_1", notes |-> "signoff_notes_1"],
   [action |->
      <<"O", "u", "t", "s", "t", "a", "n", "d", "i", "n", "g", " ", "a", "c",
      "t", "i", "o", "n", "s", " ", "n", "o", "t", "e", "d", " ", "f", "o",
      "r", " ", "c", "u", "s", "t", "o", "m", "e", "r", " ", "f", "o", "l",
      "l", "o", "w", "-", "u", "p", ".">>,
    checkbox |-> "signoff_complete_2", notes |-> "signoff_notes_2"]>>

ChecklistRatios == <<55, 12, 33>>

\* body?.[row.notes]
noteOf(body, key) == IF key \in DOMAIN body.notes THEN body.notes[key] ELSE Undefined

\* toSingleValue(body?.[row.notes]) || ''
noteValueOf(body, key) ==
  LET single == toSingleValue(noteOf(body, key)) IN
  IF Truthy(single) THEN single.chars ELSE <<>>

SignOffChecklist == [title |-> "Sign-off checklist", rows |-> SIGN_OFF_CHECKLIST_ROWS]

actionLayoutOf(row, font) ==
  layoutTextForWidth(row.action, font, HalfPt(10), HalfPt(9), LineHeightTenths,
                     Num(columnMaxWidth(tableWidth, ChecklistRatios[1])))
\* CHECKLIST_SECTIONS.forEach(drawChecklistSection), then the sign-off
\* checklist: the four tables in the order they are drawn in
ChecklistTables == CHECKLIST_SECTIONS \o <<SignOffChecklist>>
checklistRowHeight(table, index, body, font) ==
  With(ChecklistTables[table].rows[index], LAMBDA row :
    MaxOf(24,
          <<cellHeight(actionLayoutOf(row, font)),
            cellHeight(layoutTextForWidth(
              noteValueOf(body, row.notes), font, HalfPt(DefaultFontSize),
              HalfPt(DefaultMinFontSize), LineHeightTenths,
              Num(columnMaxWidth(tableWidth, ChecklistRatios[3]))))>>))

\* the notes a request may send: none, a note of four and one of five lines
\* on the first row, and a repeated note on the last row
NoteSets ==
  {<<>>,
   "led_notes_1" :> Text(<<"a", NL, "a", NL, "a", NL, "a">>),
   "led_notes_1" :> Text(<<"a", NL, "a", NL, "a", NL, "a", NL, "a">>),
   "signoff_notes_2" :> Array(<<Text(<<"a">>), Text(<<"a", " ", "a", NL, "i">>)>>)}

\* req.body as far as the sign-off pages read it
SignOffBodies ==
  {[parts |-> parts, notes |-> notes] :
     parts \in SeqsUpTo(PartsSlots, MaxPartsRows), notes \in NoteSets}

\* ---- the order of the statements of drawSignOffPage
SignOffStages ==
  <<"Parts record", "On-site team", CHECKLIST_SECTIONS[1].title,
    CHECKLIST_SECTIONS[2].title, CHECKLIST_SECTIONS[3].title,
    SignOffChecklist.title, "Sign-off details", "Signatures", "done">>

StageIndex(name) == CHOOSE i \in 1..Len(SignOffStages) : SignOffStages[i] = name

\* mutant: the checklist sections are drawn last to first
stageAfterReversed(name) ==
  LET order == <<1, 2, 5, 4, 3, 6, 7, 8, 9>>
      at == CHOOSE i \in 1..Len(order) : SignOffStages[order[i]] = name
  IN SignOffStages[order[at + 1]]

stageAfter(name) == SignOffStages[StageIndex(name) + 1]

sectionOf(name) == ChecklistTables[StageIndex(name) - 2]

\* ------------------------------------------------------ overflow pages
MaxFields == 3

\* text.split(/\r?\n/).length + 2
lineCountOf(text) == Len(splitLines(text)) + 2

\* Math.floor((baseSize.height - margin * 2) / (fontSize * lineHeightMultiplier))
maxLinesPerPageOf(size) ==
  (size.height - margin * 2 * PagePt)
    \div (DefaultFontSize * LineHeightTenths * (PagePt \div 10))

\* mutant: a page that is exactly full is closed as well
startsNewPageWhenFull(pack, lineCount, maxLinesPerPage) ==
  /\ pack.currentLineCount + lineCount >= maxLinesPerPage
  /\ pack.currentPageEntries # <<>>

\* currentLineCount + lineCount > maxLinesPerPage && currentPageEntries.length
startsNewPage(pack, lineCount, maxLinesPerPage) ==
  /\ pack.currentLineCount + lineCount > maxLinesPerPage
  /\ pack.currentPageEntries # <<>>

\* the body of overflowEntries.forEach, from entry index on
RECURSIVE packFrom(_, _, _, _)
packFrom(overflowEntries, index, pack, maxLinesPerPage) ==
  IF index > Len(overflowEntries) THEN pack
  ELSE LET entry == overflowEntries[index]
           lineCount == lineCountOf(entry.text)
           opened ==
             IF startsNewPage(pack, lineCount, maxLinesPerPage)
             THEN [entriesPerPage |-> Append(pack.entriesPerPage,
                                             pack.currentPageEntries),
                   currentPageEntries |-> <<>>,
                   currentLineCount |-> 0]
             ELSE pack
       IN packFrom(overflowEntries, index + 1,
                   [opened EXCEPT !.currentPageEntries = Append(@, entry),
                                  !.currentLineCount = @ + lineCount],
                   maxLinesPerPage)

\* the packing pass of appendOverflowPages
entriesPerPageOf(overflowEntries, size) ==
  LET pack == packFrom(overflowEntries, 1,
                       [entriesPerPage |-> <<>>, currentPageEntries |-> <<>>,
                        currentLineCount |-> 0],
                       maxLinesPerPageOf(size))
  IN IF pack.currentPageEntries # <<>>
     THEN Append(pack.entriesPerPage, pack.currentPageEntries)
     ELSE pack.entriesPerPage

\* a page of the document: where it comes from and the overflow entries
\* drawn on it, each with the lines drawn
PageOf(origin) ==
  [origin |-> origin, entries |-> <<>>, numbered |-> FALSE, cursorY |-> 0]

\* mutant: the page is counted among the appendix pages only
pageNumberInAppendix(pages) ==
  Len(SelectSeq(pages, LAMBDA each : each.origin = "appendix"))

\* pdfDoc.getPageCount()
getPageCount(pages) == Len(pages)

\* the drawing of one entry: its label and the lines of its text
drawEntry(entry, font, size) ==
  [acroName |-> entry.acroName,
   lines |-> layoutTextForWidth(entry.text, font, HalfPt(DefaultFontSize),
                                HalfPt(DefaultMinFontSize), LineHeightTenths,
                                Num((size.width - margin * 2 * PagePt)
                                    * (WidthPt \div PagePt))).lines]

RECURSIVE drawEntries(_, _, _)
drawEntries(entries, font, size) ==
  IF entries = <<>> THEN <<>>
  ELSE <<drawEntry(Head(entries), font, size)>>
       \o drawEntries(Tail(entries), font, size)

\* cursorY after an entry: 16 for the label, layout.lineHeight for each line
\* of the layout, 12 below the entry
entryCursor(cursorY, entry, font, size) ==
  With(layoutTextForWidth(entry.text, font, HalfPt(DefaultFontSize),
                          HalfPt(DefaultMinFontSize), LineHeightTenths,
                          Num((size.width - margin * 2 * PagePt)
                              * (WidthPt \div PagePt))),
       LAMBDA measured :
         cursorY - 16 * PagePt
           - Len(measured.lines) * measured.lineHeight * (PagePt \div Pt)
           - 12 * PagePt)

RECURSIVE entriesCursor(_, _, _, _)
entriesCursor(cursorY, entries, font, size) ==
  IF entries = <<>> THEN cursorY
  ELSE entriesCursor(entryCursor(cursorY, Head(entries), font, size),
                     Tail(entries), font, size)

\* cursorY at the end of an appendix page: from baseSize.height - margin,
\* 24 for the title, then the entries
appendixCursor(entries, font, size) ==
  entriesCursor(size.height - margin * PagePt - 24 * PagePt, entries, font,
                size)

RECURSIVE placementsOf(_, _)
placementsOf(entries, pageNumber) ==
  IF entries = <<>> THEN <<>>
  ELSE <<[acroName |-> Head(entries).acroName,
          requestName |-> Head(entries).requestName,
          page |-> pageNumber]>>
       \o placementsOf(Tail(entries), pageNumber)

\* what layoutTextForField may return for a text field, as far as the queue
\* reads it: no overflow, an overflow of one, two or five lines, and an
\* overflow of white space
FieldLayouts ==
  {[overflowDetected |-> FALSE, overflowText |-> <<>>],
   [overflowDetected |-> TRUE, overflowText |-> <<"a">>],
   [overflowDetected |-> TRUE, overflowText |-> <<"a", " ", "i", NL, "a">>],
   [overflowDetected |-> TRUE,
    overflowText |-> <<"a", NL, "a", NL, "i", NL, "a", NL, "i">>],
   [overflowDetected |-> TRUE, overflowText |-> <<" ">>]}

\* the template of the repository, and a short one of two pages on which an
\* appendix page holds six lines
OverflowTemplates ==
  {[pages |-> 3, size |-> [width |-> PageWidth, height |-> 84189]],
   [pages |-> 2, size |-> [width |-> PageWidth, height |-> 18900]]}

\* the pages drawSignOffPage may add behind the appendix
SignOffPageCounts == {1, 3}

\* ---------------------------------------------------------- POST /submit
MaxRequests == 2
Requests == 1..MaxRequests

\* three of the descriptors built from fields.json; none of them is one of
\* SIGN_OFF_REQUEST_FIELDS and none is a signature
fieldDescriptors ==
  <<[acroName |-> "end_customer_name", requestName |-> "end_customer_name",
     type |-> "text"],
    [acroName |-> "led_complete_1", requestName |-> "led_complete_1",
     type |-> "checkbox"],
    [acroName |-> "general_notes", requestName |-> "general_notes",
     type |-> "text"]>>

\* the names above that a rule of TEXT_FIELD_STYLE_RULES matches
resolveTextFieldStyle(name) ==
  IF name \in {"general_notes"}
  THEN [DEFAULT_TEXT_FIELD_STYLE EXCEPT !.multiline = TRUE,
                                        !.minFontSize = HalfPt(RuleMinFontSize)]
  ELSE DEFAULT_TEXT_FIELD_STYLE

\* the while loop of layoutTextForField
RECURSIVE shrinkLoop(_, _, _, _, _, _)
shrinkLoop(text, font, style, rect, workingSize, measured) ==
  IF measured.overflowDetected /\ workingSize > style.minFontSize
  THEN With(buildLayout(text, font, style.multiline,
                        style.lineHeightMultiplier, fieldWidth(rect),
                        fieldHeight(rect, style.fontSize),
                        shrinkSize(workingSize, style.minFontSize)),
            LAMBDA next :
              IF ~next.overflowDetected
                 \/ next.appliedFontSize <= style.minFontSize
              THEN next
              ELSE shrinkLoop(text, font, style, rect, next.appliedFontSize,
                              next))
  ELSE measured

layoutTextForField(text, font, style, rect) ==
  IF font = NoFont \/ rect = NoWidget
  THEN unwrappedLayout(text, style.fontSize, style.lineHeightMultiplier)
  ELSE shrinkLoop(text, font, style, rect, style.fontSize,
                  buildLayout(text, font, style.multiline,
                              style.lineHeightMultiplier, fieldWidth(rect),
                              fieldHeight(rect, style.fontSize), style.fontSize))

\* the AcroForm of the template: the type of the field of each name and the
\* rectangle of its first widget
FormField(type, width, height) ==
  [type |-> type,
   rect |-> [x1 |-> 40, y1 |-> 100, x2 |-> 40 + width, y2 |-> 100 + height]]

\* the generated template, and one whose led_complete_1 is a text field
TemplateForms ==
  {[end_customer_name |-> FormField("text", 14, 10),
    led_complete_1 |-> FormField("checkbox", 10, 10),
    general_notes |-> FormField("text", 14, 20)],
   [end_customer_name |-> FormField("text", 14, 10),
    led_complete_1 |-> FormField("text", 10, 10),
    general_notes |-> FormField("text", 14, 20)]}

\* form.getCheckBox, getTextField: an Error when there is no field of the
\* name, or it is of another type
getFieldThrows(form, descriptor) == form[descriptor.acroName].type # descriptor.type

ToLowerCase(c) ==
  CASE c = "O" -> "o" [] c = "N" -> "n" [] c = "Y" -> "y" [] c = "E" -> "e"
    [] c = "S" -> "s" [] c = "A" -> "a" [] c = "I" -> "i" [] OTHER -> c

normalizeCheckboxValue(v) ==
  LET single == toSingleValue(v) IN
  IF single.kind \in {"undefined", "null"} THEN FALSE
  ELSE LET lowered == [i \in 1..Len(trim(single.chars)) |->
                         ToLowerCase(trim(single.chars)[i])]
       IN lowered \in {<<"t", "r", "u", "e">>, <<"1">>, <<"o", "n">>,
                       <<"y", "e", "s">>,
                       <<"c", "h", "e", "c", "k", "e", "d">>}

\* the text branch of the field loop: measure, set the text, queue the overflow
textFieldResult(descriptor, normalizedValue, style, measured) ==
  [threw |-> FALSE,
   set |-> <<[acroName |-> descriptor.acroName,
              text |-> IF trim(measured.fieldText) # <<>>
                       THEN measured.fieldText ELSE normalizedValue,
              multiline |-> \/ style.multiline
                            \/ measured.displayedLines > 1
                            \/ \E i \in 1..Len(measured.fieldText) :
                                 measured.fieldText[i] = NL,
              fontSize |-> measured.appliedFontSize]>>,
   entries |->
     IF measured.overflowDetected /\ trim(measured.overflowText) # <<>>
     THEN <<[acroName |-> descriptor.acroName,
             requestName |-> descriptor.requestName,
             text |-> measured.overflowText]>>
     ELSE <<>>]

populateTextField(descriptor, normalizedValue, style, rect) ==
  textFieldResult(descriptor, normalizedValue, style,
                  layoutTextForField(normalizedValue, Helvetica, style, rect))

\* the try block of the field loop for one descriptor: whether it threw,
\* what the field was set to, and the overflow entries it queued
populateField(form, body, descriptor) ==
  IF getFieldThrows(form, descriptor)
  THEN [threw |-> TRUE, set |-> <<>>, entries |-> <<>>]
  ELSE IF descriptor.type = "checkbox"
  THEN [threw |-> FALSE,
        set |-> <<[acroName |-> descriptor.acroName,
                   checked |->
                     normalizeCheckboxValue(body[descriptor.requestName])]>>,
        entries |-> <<>>]
  ELSE With(toSingleValue(body[descriptor.requestName]), LAMBDA single :
         populateTextField(
           descriptor,
           IF single.kind \in {"undefined", "null"} THEN <<>> ELSE single.chars,
           resolveTextFieldStyle(descriptor.acroName),
           form[descriptor.acroName].rect))

EmptyFill == [fields |-> <<>>, warned |-> <<>>, entries |-> <<>>]

\* mutant: the loop is left at the first field that throws
afterFieldErrorLeave(index) == Len(fieldDescriptors) + 1

\* the catch block logs, and the loop goes on with the next descriptor
afterFieldError(index) == index + 1

\* for (const descriptor of fieldDescriptors), from index on
RECURSIVE fillFrom(_, _, _, _)
fillFrom(form, body, index, filled) ==
  IF index > Len(fieldDescriptors) THEN filled
  ELSE With(populateField(form, body, fieldDescriptors[index]), LAMBDA result :
         IF result.threw
         THEN fillFrom(form, body, afterFieldError(index),
                       [filled EXCEPT
                          !.warned = Append(@, fieldDescriptors[index].acroName)])
         ELSE fillFrom(form, body, index + 1,
                       [filled EXCEPT !.fields = @ \o result.set,
                                      !.entries = @ \o result.entries]))

\* mutant: one array of module scope
queueScopeModule(request) == 1

\* the array a handler invocation appends its overflow entries to: the
\* const of its own scope
queueScope(request) == request

\* the placements of appendOverflowPages on a document of pageCount pages
RECURSIVE appendixPlacements(_, _)
appendixPlacements(groups, pageCount) ==
  IF groups = <<>> THEN <<>>
  ELSE placementsOf(Head(groups), pageCount + 1)
       \o appendixPlacements(Tail(groups), pageCount + 1)

\* a table row: ensureSpace, on a new page the continued title and the header
\* row again, then the row
placeRow(pen, size, section, number, rowHeight, gap) ==
  With(ensureSpace(pen, size, rowHeight + gap, DefaultHeading), LAMBDA spaced :
    drawRow(IF ensured(pen, spaced)
            THEN drawHeaderRow(drawSectionTitle(spaced, section, Cont(section)),
                               section)
            ELSE spaced,
            section, number, rowHeight))

\* a section's heading: ensureSpace, then the title, continued on a new page
placeTitle(pen, size, section, needed) ==
  With(ensureSpace(pen, size, needed, DefaultHeading), LAMBDA spaced :
    drawSectionTitle(spaced, section,
                     IF ensured(pen, spaced) THEN Cont(section) ELSE section))

\* drawSignOffPage down to the end of the parts record
RECURSIVE partsRowsPen(_, _, _, _, _)
partsRowsPen(pen, size, usedRows, index, font) ==
  IF index > Len(usedRows) THEN [pen EXCEPT !.cursorY = @ - 24 * PagePt]
  ELSE partsRowsPen(placeRow(pen, size, "Parts record", usedRows[index].number,
                             partsRowHeight(usedRows[index], font), 6),
                    size, usedRows, index + 1, font)

partsRecordPen(pen, size, partsRows, font) ==
  With(usedRowsOf(partsRows), LAMBDA usedRows :
    IF usedRows # <<>>
    THEN partsRowsPen(
           drawHeaderRow(placeTitle(pen, size, "Parts record",
                                    18 + 22 * Min(Len(usedRows), 3) + 12),
                         "Parts record"),
           size, usedRows, 1, font)
    ELSE drawLine(placeTitle(pen, size, "Parts record", 24), "Parts record",
                  "No spare parts were recorded for this visit.", 24))

\* the start of drawSignOffPage on a document of pageCount pages
openSignOffPen(pageCount, size) ==
  LET cleared == pageCount > PARTS_TABLE_LAYOUT.pageIndex
      target == IF cleared THEN PARTS_TABLE_LAYOUT.pageIndex + 1
                ELSE pageCount + 1
  IN setCurrentPage([pageCount |-> IF cleared THEN pageCount ELSE pageCount + 1,
                     page |-> 0, cursorY |-> 0, drawn |-> <<>>],
                    size, target, "Maintenance Summary")

\* cleanForFilename, for names of letters, digits and white space
RECURSIVE cleanFrom(_, _)
cleanFrom(chars, cleaned) ==
  IF chars = <<>> THEN cleaned
  ELSE IF IsSpace(Head(chars))
       THEN cleanFrom(Tail(chars),
                      IF cleaned # <<>> /\ cleaned[Len(cleaned)] = "_"
                      THEN cleaned ELSE Append(cleaned, "_"))
       ELSE cleanFrom(Tail(chars), Append(cleaned, Head(chars)))
cleanForFilename(chars) ==
  LET cleaned == cleanFrom(chars, <<>>)
      first == IF cleaned # <<>> /\ cleaned[1] = "_" THEN 2 ELSE 1
      last == IF cleaned # <<>> /\ cleaned[Len(cleaned)] = "_"
              THEN Len(cleaned) - 1 ELSE Len(cleaned)
  IN sliceTo(SubSeq(cleaned, first, last), 40)

\* the customerPart of the file name
customerPartOf(body) ==
  IF Truthy(body.end_customer_name) /\ body.end_customer_name.kind = "string"
  THEN cleanForFilename(trim(body.end_customer_name.chars))
  ELSE <<>>

\* new Date() when the name is chosen: the requests of a run fall into one
\* millisecond or into two
Timestamps == {0, 1}

\* `filled-${customerPart}${timestamp}`
baseFilename(customerPart, timestamp) ==
  [customerPart |-> customerPart, timestamp |-> timestamp]

\* the while loop over fs.existsSync: the first name that is free
RECURSIVE freeNameFrom(_, _, _)
freeNameFrom(files, base, counter) ==
  IF \E file \in files :
       file.base = base /\ file.counter = counter /\ file.ext = "pdf"
  THEN freeNameFrom(files, base, counter + 1)
  ELSE [base |-> base, counter |-> counter]

\* fs.promises.writeFile: the file of the name is created or replaced
writeFile(files, name, ext, content) ==
  {file \in files :
     ~(file.base = name.base /\ file.counter = name.counter /\ file.ext = ext)}
  \cup {[base |-> name.base, counter |-> name.counter, ext |-> ext,
         content |-> content]}

\* String(value).trim().replace(/\s+/g, ' ')
RECURSIVE collapseSpaces(_)
collapseSpaces(chars) ==
  IF chars = <<>> THEN <<>>
  ELSE IF IsSpace(Head(chars))
       THEN IF Len(chars) > 1 /\ IsSpace(chars[2])
            THEN collapseSpaces(Tail(chars))
            ELSE <<" ">> \o collapseSpaces(Tail(chars))
       ELSE <<Head(chars)>> \o collapseSpaces(Tail(chars))
normalizeSuggestionValue(v) ==
  IF v.kind \in {"undefined", "null"} THEN <<>>
  ELSE collapseSpaces(trim(v.chars))

SUGGESTION_FIELDS ==
  {"end_customer_name", "site_location", "service_company_name",
   "engineer_company", "engineer_name", "customer_company", "customer_name"}
MIN_SUGGESTION_LENGTH == 3
MAX_SUGGESTIONS_PER_FIELD == 12

\* String.prototype.toLowerCase
toLowerCase(chars) == [i \in 1..Len(chars) |-> ToLowerCase(chars[i])]

\* bucket.findIndex((entry) => entry.toLowerCase() === lower), counted from 1;
\* 0 when there is none
findIndex(bucket, lower) ==
  IF \E i \in 1..Len(bucket) : toLowerCase(bucket[i]) = lower
  THEN Least({i \in 1..Len(bucket) : toLowerCase(bucket[i]) = lower})
  ELSE 0

\* bucket.splice(existingIndex, 1)
splice(bucket, existingIndex) ==
  IF existingIndex = 0 THEN bucket
  ELSE SubSeq(bucket, 1, existingIndex - 1)
       \o SubSeq(bucket, existingIndex + 1, Len(bucket))

bucketOf(store, fieldName) ==
  IF fieldName \in DOMAIN store THEN store[fieldName] ELSE <<>>

\* mutant: the bucket grows without a limit
unshiftUncapped(store, fieldName, normalizedValue, existingIndex) ==
  (fieldName :> (<<normalizedValue>>
                 \o splice(bucketOf(store, fieldName), existingIndex)))
  @@ store

\* splice, unshift and the cut to MAX_SUGGESTIONS_PER_FIELD
unshift(store, fieldName, normalizedValue, existingIndex) ==
  (fieldName :> sliceTo(<<normalizedValue>>
                        \o splice(bucketOf(store, fieldName), existingIndex),
                        MAX_SUGGESTIONS_PER_FIELD))
  @@ store

\* the store after recordSuggestionValue(fieldName, value); the call returns
\* true when the store has changed
recordNormalized(store, fieldName, normalizedValue) ==
  IF Len(normalizedValue) < MIN_SUGGESTION_LENGTH THEN store
  ELSE With(findIndex(bucketOf(store, fieldName), toLowerCase(normalizedValue)),
            LAMBDA existingIndex :
              IF existingIndex = 1 THEN store
              ELSE unshift(store, fieldName, normalizedValue, existingIndex))

recordSuggestionValue(store, fieldName, v) ==
  IF fieldName \notin SUGGESTION_FIELDS THEN store
  ELSE recordNormalized(store, fieldName, normalizeSuggestionValue(v))

\* the fields of SUGGESTION_FIELDS in the order of the Set
SuggestionFieldOrder ==
  <<"end_customer_name", "site_location", "service_company_name",
    "engineer_company", "engineer_name", "customer_company", "customer_name">>

RECURSIVE recordFields(_, _, _)
recordFields(store, body, index) ==
  IF index > Len(SuggestionFieldOrder) \/ ~Evaluated(store) THEN store
  ELSE recordFields(
         IF SuggestionFieldOrder[index] \in DOMAIN body
         THEN recordSuggestionValue(
                store, SuggestionFieldOrder[index],
                toSingleValue(body[SuggestionFieldOrder[index]]))
         ELSE store,
         body, index + 1)

\* the store after recordSuggestionsFromSubmission(req.body || {})
recordSuggestionsFromSubmission(store, body) ==
  IF body.kind # "object" THEN store ELSE recordFields(store, body, 1)

\* the store after twelve submissions with different customer names
SeedNames ==
  <<<<"a", "a", "a">>, <<"a", "a", "i">>, <<"a", "i", "a">>, <<"a", "i", "i">>,
    <<"i", "a", "a">>, <<"i", "a", "i">>, <<"i", "i", "a">>, <<"i", "i", "i">>,
    <<"a", "a", "o">>, <<"a", "o", "a">>, <<"o", "a", "a">>, <<"o", "o", "o">>>>

RECURSIVE seededFrom(_, _)
seededFrom(store, index) ==
  IF index > Len(SeedNames) THEN store
  ELSE seededFrom(
         recordSuggestionsFromSubmission(
           store, [kind |-> "object",
                   end_customer_name |-> Text(SeedNames[index])]),
         index + 1)

SuggestionStores == {<<>>, seededFrom(<<>>, 1)}

\* the steps of the handler that end in an await, in order
SubmitSteps ==
  <<"loading", "images", "signoff", "saving", "writingPdf", "writingJson",
    "done">>
StepIndex(name) == CHOOSE i \in 1..Len(SubmitSteps) : SubmitSteps[i] = name

\* mutant: the file is written before the document is saved
stepAfterWriteFirst(name) ==
  CASE name = "signoff" -> "writingPdf"
    [] name = "writingPdf" -> "saving"
    [] name = "saving" -> "writingJson"
    [] OTHER -> SubmitSteps[StepIndex(name) + 1]

stepAfter(name) == SubmitSteps[StepIndex(name) + 1]

\* a request body: the three fields, the parts slots and the team
SubmitBody(customer, complete, notes, parts, team) ==
  [kind |-> "object", end_customer_name |-> customer,
   led_complete_1 |-> complete, general_notes |-> notes, parts |-> parts,
   employees |-> team, flat |-> <<>>]

\* a body with engineer_name as well
Engineer(name, body) == ("engineer_name" :> name) @@ body

SubmitBodies ==
  {Engineer(Text(<<" ", "a", "i", " ", " ", "a">>),
   SubmitBody(Text(<<"a", " ", " ", "i", "a">>), Text(<<"O", "n">>),
              Text(<<"a", " ", "a", " ", "a", " ", "a", " ", "i">>),
              <<PartsSlot(Text(<<"a", NL, "a", NL, "a">>), Text(<<"i">>),
                          Undefined, Undefined, Undefined)>>,
              Array(<<Object(Text(<<"a", "b">>), Undefined,
                             DateTimeText(1, 9, 0, 0 - 1),
                             DateTimeText(1, 15, 1, 0 - 1))>>))),
   Engineer(Text(<<"i", " ">>),
   SubmitBody(Array(<<Text(<<"i">>), Text(<<"I", "I", "a">>)>>),
              Text(<<"o", "f", "f">>), Text(<<"i", NL, "a", " ", "a", " ", "a">>),
              <<>>, Array(<<>>)))}

\* new Date() in collectEmployeeEntries
SubmitClock == DateOf(1, 12, 0, 20)

NoOutput == [none |-> TRUE]
NoResponse == [status |-> 0, error |-> ""]
NoPen == [pageCount |-> 0, page |-> 0, cursorY |-> 0, drawn |-> <<>>]
NoName == [base |-> baseFilename(<<>>, 0), counter |-> 0 - 1]

\* the template of generate-template.js: three pages of A4
GeneratedTemplate ==
  [pages |-> 3, size |-> [width |-> PageWidth, height |-> 84189]]

VARIABLES
  value,          \* options.value
  font,           \* options.font
  widget,         \* options.widget: its rectangle, or NoWidget
  fontSize,       \* options.fontSize, half points
  minFontSize,    \* options.minFontSize, half points
  multiline,      \* options.multiline
  lineHeightMultiplier,  \* options.lineHeightMultiplier, tenths
  workingSize,    \* the loop variable of layoutTextForField
  layout,         \* the loop's current layout, the result once pc = "done"
  wrappedLines,   \* wrappedLines of the last buildLayout call
  tried,          \* the candidate sizes passed to buildLayout, in order
  pc,             \* position inside layoutTextForField
  pass,           \* 1: first call, 2: the call on the first call's result
  first           \* the first call's options and result, kept for pass 2

layoutVars ==
  <<value, font, widget, fontSize, minFontSize, multiline,
    lineHeightMultiplier, workingSize, layout, wrappedLines, tried, pc, pass,
    first>>

VARIABLES
  body,       \* the request body handed to collectEmployeeEntries
  clock,      \* what new Date() returns during the call
  summary,    \* the returned summary
  threw,      \* the call ended in an exception
  epc         \* "call" before, "done" after the call

employeeVars == <<body, clock, summary, threw, epc>>

VARIABLES
  minutes,    \* the argument of determineBreakRequirement
  breakInfo,  \* its result
  bpc         \* "call" before, "done" after the call

breakVars == <<minutes, breakInfo, bpc>>

VARIABLES
  cellValue,     \* options.value of layoutTextForWidth
  cellFont,      \* options.font
  cellStyle,     \* options.fontSize and options.minFontSize
  cellMaxWidth,  \* options.maxWidth
  cellLayout,    \* the returned layout
  cpc            \* "call" before, "done" after the call

cellVars == <<cellValue, cellFont, cellStyle, cellMaxWidth, cellLayout, cpc>>

VARIABLES
  signBody,       \* req.body, as far as the sign-off pages read it
  employees,      \* options.employees.entries
  baseSize,       \* the size of the template's pages
  templatePages,  \* the number of pages of the template
  partsRows,      \* partsRowUsage
  pageCount,      \* pdfDoc.getPageCount()
  page,           \* the 1-based index of the page drawn on
  cursorY,        \* the cursor of drawSignOffPage
  drawn,          \* what has been drawn, in order
  stage,          \* the section drawSignOffPage is at
  rowIndex        \* 0 before the section's title, then the next row

signVars ==
  <<signBody, employees, baseSize, templatePages, partsRows, pageCount, page,
    cursorY, drawn, stage, rowIndex>>

VARIABLES
  fieldLayouts,          \* the layout of each text field of the form
  appendixBase,          \* the template: its page count and page size
  signOffPageCount,      \* the pages drawSignOffPage is going to add
  fieldIndex,            \* the descriptor the field loop is at
  overflowTextEntries,   \* the queue of the request
  entriesPerPage,        \* the result of the packing pass
  pdfPages,              \* pdfDoc.getPages()
  overflowPlacements,    \* the placements returned
  opc                    \* the step POST /submit is at

overflowVars ==
  <<fieldLayouts, appendixBase, signOffPageCount, fieldIndex,
    overflowTextEntries, entriesPerPage, pdfPages, overflowPlacements, opc>>

VARIABLES
  templateForm,      \* the AcroForm of the template file
  requestBody,       \* req.body of each request
  submitStep,        \* where the handler of each request is
  partsRowUsage,     \* the locals of each handler invocation:
  employeeSummary,
  formFields,        \*   the fields set and the fields warned about
  overflowQueues,    \*   overflowTextEntries, by scope
  requestPlacements, \*   overflowPlacements
  submitPen,         \*   page and cursorY of drawSignOffPage
  pdfOutput,
  chosenName,        \*   filename
  response,          \* what res.json or res.status(500).json sent
  outputDir,         \* the files of OUTPUT_DIR
  suggestionStore,   \* suggestionStore.suggestions in memory
  storeFile          \* and in store.json

submitVars ==
  <<templateForm, requestBody, submitStep, partsRowUsage, employeeSummary,
    formFields, overflowQueues, requestPlacements, submitPen, pdfOutput,
    chosenName, response, outputDir, suggestionStore, storeFile>>

VARIABLES
  callee,      \* the layout function called, "pending" before the call
  callArgs,    \* its arguments
  callResult,  \* what it returned
  callThrew    \* the call ended in a TypeError

callVars == <<callee, callArgs, callResult, callThrew>>

VARIABLES
  tableStep,     \* "rendered" before setupPartsTable has run, then "ready"
  tableRows,     \* the .parts-row elements: hidden class and inputs
  addButton,     \* disabled property of the "Add another part" button
  removeButton,  \* disabled property of the "Remove last row" button
  lastEvent,     \* the event handled last: "add", "remove" or "input"
  typed          \* inputs edited so far

tableVars ==
  <<tableStep, tableRows, addButton, removeButton, lastEvent, typed>>

TableIdle ==
  /\ tableStep = "idle" /\ tableRows = <<>> /\ addButton = FALSE
  /\ removeButton = FALSE /\ lastEvent = "none" /\ typed = 0

vars ==
  <<layoutVars, employeeVars, breakVars, cellVars, signVars, overflowVars,
    submitVars, callVars, tableVars>>

\* the variables of the other parts, which an action of one part leaves alone
exceptLayout ==
  <<employeeVars, breakVars, cellVars, signVars, overflowVars, submitVars,
    callVars, tableVars>>
exceptEmployees ==
  <<layoutVars, breakVars, cellVars, signVars, overflowVars, submitVars,
    callVars, tableVars>>
exceptBreak ==
  <<layoutVars, employeeVars, cellVars, signVars, overflowVars, submitVars,
    callVars, tableVars>>
exceptCell ==
  <<layoutVars, employeeVars, breakVars, signVars, overflowVars, submitVars,
    callVars, tableVars>>
exceptSignOff ==
  <<layoutVars, employeeVars, breakVars, cellVars, overflowVars, submitVars,
    callVars, tableVars>>
exceptOverflow ==
  <<layoutVars, employeeVars, breakVars, cellVars, signVars, submitVars,
    callVars, tableVars>>
exceptCalls ==
  <<layoutVars, employeeVars, breakVars, cellVars, signVars, overflowVars,
    submitVars, tableVars>>
exceptTable ==
  <<layoutVars, employeeVars, breakVars, cellVars, signVars, overflowVars,
    submitVars, callVars>>
exceptSubmit ==
  <<layoutVars, employeeVars, breakVars, cellVars, signVars, overflowVars,
    callVars, tableVars>>

\* ---------------------------------- layoutTextForField as a state machine
NoFirst == [value |-> <<>>, fontSize |-> 0, layout |-> NoLayout]

LayoutInit ==
  /\ value \in Texts
  /\ font = Helvetica
  /\ widget \in Rectangles
  /\ \E style \in TextFieldStyles :
       /\ fontSize = style.fontSize
       /\ minFontSize = style.minFontSize
       /\ multiline = style.multiline
       /\ lineHeightMultiplier = style.lineHeightMultiplier
  /\ workingSize = 0
  /\ layout = NoLayout
  /\ wrappedLines = <<>>
  /\ tried = <<>>
  /\ pc = "call"
  /\ pass = 1
  /\ first = NoFirst

\* layoutTextForField is called for the note of a checklist row
ExampleInit ==
  /\ value = ExampleSentence
  /\ font = Helvetica
  /\ widget \in ExampleRectangles
  /\ \E style \in TextFieldStyles :
       /\ fontSize = style.fontSize
       /\ minFontSize = style.minFontSize
       /\ multiline = style.multiline
       /\ lineHeightMultiplier = style.lineHeightMultiplier
  /\ workingSize = 0
  /\ layout = NoLayout
  /\ wrappedLines = <<>>
  /\ tried = <<>>
  /\ pc = "call"
  /\ pass = 1
  /\ first = NoFirst

\* layoutTextForField up to and including the first buildLayout
LayoutEnter ==
  /\ UNCHANGED exceptLayout
  /\ pc = "call"
  /\ IF font = NoFont \/ widget = NoWidget
     THEN /\ layout' = unwrappedLayout(value, fontSize, lineHeightMultiplier)
          /\ pc' = "done"
          /\ UNCHANGED <<workingSize, wrappedLines, tried>>
     ELSE /\ workingSize' = fontSize
          /\ layout' = buildLayout(value, font, multiline, lineHeightMultiplier,
                                   fieldWidth(widget),
                                   fieldHeight(widget, fontSize), fontSize)
          /\ wrappedLines' = wrapTextToWidth(value, font, fontSize,
                                             Num(fieldWidth(widget)))
          /\ tried' = <<fontSize>>
          /\ pc' = "loop"
  /\ UNCHANGED <<value, font, widget, fontSize, minFontSize, multiline,
                 lineHeightMultiplier, pass, first>>

\* one iteration of the while loop, its break included
ShrinkStep ==
  /\ UNCHANGED exceptLayout
  /\ pc = "loop"
  /\ layout.overflowDetected /\ workingSize > minFontSize
  /\ LET size == shrinkSize(workingSize, minFontSize)
         next == buildLayout(value, font, multiline, lineHeightMultiplier,
                             fieldWidth(widget), fieldHeight(widget, fontSize),
                             size)
     IN /\ workingSize' = size
        /\ layout' = next
        /\ wrappedLines' = wrapTextToWidth(value, font, size,
                                           Num(fieldWidth(widget)))
        /\ tried' = Append(tried, size)
        /\ pc' = IF ~next.overflowDetected \/ size <= minFontSize
                 THEN "break" ELSE "loop"
  /\ UNCHANGED <<value, font, widget, fontSize, minFontSize, multiline,
                 lineHeightMultiplier, pass, first>>

\* return layout
LayoutReturn ==
  /\ UNCHANGED exceptLayout
  /\ \/ pc = "break"
     \/ pc = "loop" /\ ~(layout.overflowDetected /\ workingSize > minFontSize)
  /\ pc' = "done"
  /\ UNCHANGED <<value, font, widget, fontSize, minFontSize, multiline,
                 lineHeightMultiplier, workingSize, layout, wrappedLines,
                 tried, pass, first>>

\* layoutTextForField called again on its own fittedText and appliedFontSize
LayoutAgain ==
  /\ UNCHANGED exceptLayout
  /\ pc = "done" /\ pass = 1
  /\ first' = [value |-> value, fontSize |-> fontSize, layout |-> layout]
  /\ value' = layout.fieldText
  /\ fontSize' = layout.appliedFontSize
  /\ pass' = 2
  /\ pc' = "call"
  /\ workingSize' = 0
  /\ layout' = NoLayout
  /\ wrappedLines' = <<>>
  /\ tried' = <<>>
  /\ UNCHANGED <<font, widget, minFontSize, multiline, lineHeightMultiplier>>

\* ------------------------------------------------------------ idle parts
LayoutIdle ==
  /\ value = <<>> /\ font = Helvetica /\ widget = NoWidget
  /\ fontSize = 0 /\ minFontSize = 0 /\ multiline = FALSE
  /\ lineHeightMultiplier = 0 /\ workingSize = 0 /\ layout = NoLayout
  /\ wrappedLines = <<>> /\ tried = <<>> /\ pc = "idle" /\ pass = 0
  /\ first = NoFirst

EmployeeIdle ==
  /\ body = Undefined /\ clock = 0 /\ summary = EmptySummary
  /\ threw = FALSE /\ epc = "idle"

BreakIdle ==
  /\ minutes = Num(0) /\ breakInfo = [code |-> "UNKNOWN", minutes |-> 0]
  /\ bpc = "idle"

EmployeeInit ==
  /\ body \in Bodies
  /\ clock \in Clocks
  /\ summary = EmptySummary
  /\ threw = FALSE
  /\ epc = "call"

\* collectEmployeeEntries(req.body || {})
CollectEmployeeEntries ==
  /\ UNCHANGED exceptEmployees
  /\ epc = "call"
  /\ IF throwsTypeError(body)
     THEN threw' = TRUE /\ UNCHANGED summary
     ELSE threw' = FALSE /\ summary' = collectEmployeeEntries(body, clock)
  /\ epc' = "done"
  /\ UNCHANGED <<body, clock>>

CellIdle ==
  /\ cellValue = <<>> /\ cellFont = Helvetica
  /\ cellStyle = [fontSize |-> 0, minFontSize |-> 0]
  /\ cellMaxWidth = [finite |-> TRUE, val |-> 0]
  /\ cellLayout = NoCellLayout /\ cpc = "idle"

CellInit ==
  /\ cellValue \in Texts
  /\ cellFont \in {Helvetica, NoFont}
  /\ cellStyle \in CellStyles
  /\ cellMaxWidth \in MaxWidths
  /\ cellLayout = NoCellLayout
  /\ cpc = "call"

\* layoutTextForWidth(options)
LayoutTextForWidth ==
  /\ UNCHANGED exceptCell
  /\ cpc = "call"
  /\ cellLayout' = layoutTextForWidth(cellValue, cellFont, cellStyle.fontSize,
                                      cellStyle.minFontSize, LineHeightTenths,
                                      cellMaxWidth)
  /\ cpc' = "done"
  /\ UNCHANGED <<cellValue, cellFont, cellStyle, cellMaxWidth>>

BreakInit ==
  /\ minutes \in {Num(n) : n \in (0 - 5)..MaxMinutes} \cup NonFinite
  /\ breakInfo = [code |-> "UNKNOWN", minutes |-> 0]
  /\ bpc = "call"

\* determineBreakRequirement(minutes)
DetermineBreak ==
  /\ UNCHANGED exceptBreak
  /\ bpc = "call"
  /\ breakInfo' = determineBreakRequirement(minutes)
  /\ bpc' = "done"
  /\ UNCHANGED minutes

\* ------------------------------ drawSignOffPage as a state machine
SignOffIdle ==
  /\ signBody = [parts |-> <<>>, notes |-> <<>>] /\ employees = <<>>
  /\ baseSize = [width |-> 0, height |-> 0] /\ templatePages = 0
  /\ partsRows = <<>> /\ pageCount = 0 /\ page = 0 /\ cursorY = 0
  /\ drawn = <<>> /\ stage = "idle" /\ rowIndex = 0

SignOffInit ==
  /\ signBody \in SignOffBodies
  /\ employees \in Rosters
  /\ \E template \in Templates :
       baseSize = template.size /\ templatePages = template.pages
  /\ partsRows = <<>>
  /\ pageCount = templatePages
  /\ page = 0 /\ cursorY = 0 /\ drawn = <<>>
  /\ stage = "collect" /\ rowIndex = 0

Pen == [pageCount |-> pageCount, page |-> page, cursorY |-> cursorY, drawn |-> drawn]

SetPen(pen) ==
  \E after \in {pen} :
    /\ pageCount' = after.pageCount
    /\ page' = after.page
    /\ cursorY' = after.cursorY
    /\ drawn' = after.drawn

signInputs == <<signBody, employees, baseSize, templatePages>>

\* const partsRowUsage = collectPartsRowUsage(req.body || {})
CollectPartsRowUsage ==
  /\ UNCHANGED exceptSignOff
  /\ stage = "collect"
  /\ partsRows' = collectPartsRowUsage(signBody)
  /\ stage' = "open"
  /\ UNCHANGED <<signInputs, pageCount, page, cursorY, drawn, rowIndex>>

\* clearOriginalSignoffSection, then the first statements of drawSignOffPage:
\* the target page or a new page, and setCurrentPage
OpenSignOffPage ==
  /\ UNCHANGED exceptSignOff
  /\ stage = "open"
  /\ LET cleared == templatePages > PARTS_TABLE_LAYOUT.pageIndex
         target == IF cleared THEN PARTS_TABLE_LAYOUT.pageIndex + 1
                   ELSE pageCount + 1
         opened == IF cleared THEN Pen ELSE [Pen EXCEPT !.pageCount = @ + 1]
     IN SetPen(setCurrentPage(opened, baseSize, target, "Maintenance Summary"))
  /\ stage' = SignOffStages[1]
  /\ rowIndex' = 0
  /\ UNCHANGED <<signInputs, partsRows>>

\* the title and the header of the parts record, or its empty note
PartsHeading ==
  /\ UNCHANGED exceptSignOff
  /\ stage = "Parts record" /\ rowIndex = 0
  /\ LET usedRows == usedRowsOf(partsRows) IN
     IF usedRows # <<>>
     THEN LET spaced == ensureSpace(Pen, baseSize,
                                    18 + 22 * Min(Len(usedRows), 3) + 12,
                                    DefaultHeading)
              headerLabel == IF ensured(Pen, spaced) THEN Cont(stage) ELSE stage
          IN /\ SetPen(drawHeaderRow(drawSectionTitle(spaced, stage, headerLabel),
                                     stage))
             /\ rowIndex' = 1
             /\ UNCHANGED stage
     ELSE LET spaced == ensureSpace(Pen, baseSize, 24, DefaultHeading)
              headerLabel == IF ensured(Pen, spaced) THEN Cont(stage) ELSE stage
          IN /\ SetPen(drawLine(drawSectionTitle(spaced, stage, headerLabel),
                                stage,
                                "No spare parts were recorded for this visit.",
                                24))
             /\ rowIndex' = 0
             /\ stage' = stageAfter(stage)
  /\ UNCHANGED <<signInputs, partsRows>>

\* the body of usedRows.forEach for one row
PartsRow ==
  /\ UNCHANGED exceptSignOff
  /\ stage = "Parts record" /\ rowIndex \in 1..Len(usedRowsOf(partsRows))
  /\ \E row \in {usedRowsOf(partsRows)[rowIndex]} :
       SetPen(placeRow(Pen, baseSize, stage, row.number,
                       partsRowHeight(row, Helvetica), 6))
  /\ rowIndex' = rowIndex + 1
  /\ UNCHANGED <<signInputs, partsRows, stage>>

\* cursorY -= 24 after the rows
PartsEnd ==
  /\ UNCHANGED exceptSignOff
  /\ stage = "Parts record" /\ rowIndex > Len(usedRowsOf(partsRows))
  /\ cursorY' = cursorY - 24 * PagePt
  /\ stage' = stageAfter(stage)
  /\ rowIndex' = 0
  /\ UNCHANGED <<signInputs, partsRows, pageCount, page, drawn>>

\* renderEmployeesSection up to the header row, or its empty note
TeamHeading ==
  /\ UNCHANGED exceptSignOff
  /\ stage = "On-site team" /\ rowIndex = 0
  /\ LET spaced == ensureSpace(Pen, baseSize,
                               18 + 22 * Max(1, Len(employees)) + 24,
                               DefaultHeading)
         sectionLabel == IF ensured(Pen, spaced) THEN Cont(stage) ELSE stage
         titled == drawSectionTitle(spaced, stage, sectionLabel)
     IN IF employees = <<>>
        THEN /\ SetPen(drawLine(titled, stage,
                                "No employees were recorded for this visit.", 24))
             /\ rowIndex' = 0
             /\ stage' = stageAfter(stage)
        ELSE /\ SetPen(drawHeaderRow(titled, stage))
             /\ rowIndex' = 1
             /\ UNCHANGED stage
  /\ UNCHANGED <<signInputs, partsRows>>

\* the body of employeeEntries.forEach for one entry
TeamRow ==
  /\ UNCHANGED exceptSignOff
  /\ stage = "On-site team" /\ rowIndex \in 1..Len(employees)
  /\ SetPen(placeRow(Pen, baseSize, stage, rowIndex,
                     teamRowHeight(employees[rowIndex], rowIndex, Helvetica), 8))
  /\ rowIndex' = rowIndex + 1
  /\ UNCHANGED <<signInputs, partsRows, stage>>

\* the two lines of totals below the rows
TeamEnd ==
  /\ UNCHANGED exceptSignOff
  /\ stage = "On-site team" /\ rowIndex > Len(employees)
  /\ LET lowered == [Pen EXCEPT !.cursorY = @ - 14 * PagePt] IN
     SetPen(drawLine(drawLine(lowered, stage, "Total recorded time", 16),
                     stage, "Mandated breaks", 26))
  /\ stage' = stageAfter(stage)
  /\ rowIndex' = 0
  /\ UNCHANGED <<signInputs, partsRows>>

IsChecklist(name) ==
  name \in {ChecklistTables[i].title : i \in 1..Len(ChecklistTables)}

\* drawChecklistSection up to the header row
ChecklistHeading ==
  /\ UNCHANGED exceptSignOff
  /\ IsChecklist(stage) /\ rowIndex = 0
  /\ LET spaced == ensureSpace(Pen, baseSize, 18 + 24 + 12, DefaultHeading)
         headingLabel == IF ensured(Pen, spaced) THEN Cont(stage) ELSE stage
     IN SetPen(drawHeaderRow(drawSectionTitle(spaced, stage, headingLabel),
                             stage))
  /\ rowIndex' = 1
  /\ UNCHANGED <<signInputs, partsRows, stage>>

\* the body of section.rows.forEach for one row
ChecklistRow ==
  /\ UNCHANGED exceptSignOff
  /\ IsChecklist(stage) /\ rowIndex \in 1..Len(sectionOf(stage).rows)
  /\ SetPen(placeRow(Pen, baseSize, stage, rowIndex,
                     checklistRowHeight(StageIndex(stage) - 2, rowIndex,
                                        signBody, Helvetica), 8))
  /\ rowIndex' = rowIndex + 1
  /\ UNCHANGED <<signInputs, partsRows, stage>>

\* cursorY -= 18 after the rows
ChecklistEnd ==
  /\ UNCHANGED exceptSignOff
  /\ IsChecklist(stage) /\ rowIndex > Len(sectionOf(stage).rows)
  /\ cursorY' = cursorY - 18 * PagePt
  /\ stage' = stageAfter(stage)
  /\ rowIndex' = 0
  /\ UNCHANGED <<signInputs, partsRows, pageCount, page, drawn>>

\* addPageWithHeading('Sign-off details') and the six boxes of the details
SignOffDetails ==
  /\ UNCHANGED exceptSignOff
  /\ stage = "Sign-off details"
  /\ LET fresh == addPageWithHeading(Pen, baseSize, stage)
         spaced == ensureSpace(fresh, baseSize, 28 * 3 + 40, Cont(stage))
         detailHeading == IF ensured(fresh, spaced) THEN Cont(stage) ELSE stage
         boxed == drawBoxes(drawSectionTitle(spaced, stage, detailHeading),
                            stage, 28 * 3)
     IN SetPen([boxed EXCEPT !.cursorY = @ - (28 * 3 + 20) * PagePt])
  /\ stage' = stageAfter(stage)
  /\ UNCHANGED <<signInputs, partsRows, rowIndex>>

\* the title and the two boxes of the signatures
Signatures ==
  /\ UNCHANGED exceptSignOff
  /\ stage = "Signatures"
  /\ LET spaced == ensureSpace(Pen, baseSize, 90 + 60, Cont(stage))
         signatureHeading == IF ensured(Pen, spaced) THEN Cont(stage) ELSE stage
     IN SetPen(drawBoxes(drawSectionTitle(spaced, stage, signatureHeading),
                         stage, 90))
  /\ stage' = stageAfter(stage)
  /\ UNCHANGED <<signInputs, partsRows, rowIndex>>

\* ------------------- the overflow queue and the appendix in POST /submit
OverflowIdle ==
  /\ fieldLayouts = <<>> /\ appendixBase = [pages |-> 0, size |-> [width |-> 0, height |-> 0]]
  /\ signOffPageCount = 0 /\ fieldIndex = 0 /\ overflowTextEntries = <<>>
  /\ entriesPerPage = <<>> /\ pdfPages = <<>> /\ overflowPlacements = <<>>
  /\ opc = "idle"

OverflowInit ==
  /\ fieldLayouts \in SeqsUpTo(FieldLayouts, MaxFields)
  /\ appendixBase \in OverflowTemplates
  /\ signOffPageCount \in SignOffPageCounts
  /\ fieldIndex = 1
  /\ overflowTextEntries = <<>>
  /\ entriesPerPage = <<>>
  /\ pdfPages = [i \in 1..appendixBase.pages |-> PageOf("template")]
  /\ overflowPlacements = <<>>
  /\ opc = "fill"

overflowInputs == <<fieldLayouts, appendixBase, signOffPageCount>>

\* the body of the field loop for a text field, as far as the queue goes
FillTextField ==
  /\ UNCHANGED exceptOverflow
  /\ opc = "fill" /\ fieldIndex \in 1..Len(fieldLayouts)
  /\ LET fieldLayout == fieldLayouts[fieldIndex] IN
     overflowTextEntries' =
       IF fieldLayout.overflowDetected /\ fieldLayout.overflowText # <<>>
          /\ trim(fieldLayout.overflowText) # <<>>
       THEN Append(overflowTextEntries,
                   [acroName |-> fieldIndex, requestName |-> fieldIndex,
                    text |-> fieldLayout.overflowText])
       ELSE overflowTextEntries
  /\ fieldIndex' = fieldIndex + 1
  /\ UNCHANGED <<overflowInputs, entriesPerPage, pdfPages, overflowPlacements, opc>>

\* form.flatten(), then the packing pass of appendOverflowPages when the
\* queue is not empty
PackOverflowEntries ==
  /\ UNCHANGED exceptOverflow
  /\ opc = "fill" /\ fieldIndex > Len(fieldLayouts)
  /\ IF overflowTextEntries # <<>>
     THEN /\ entriesPerPage' = entriesPerPageOf(overflowTextEntries,
                                                appendixBase.size)
          /\ opc' = "draw"
     ELSE /\ UNCHANGED entriesPerPage
          /\ opc' = "signoff"
  /\ UNCHANGED <<overflowInputs, fieldIndex, overflowTextEntries, pdfPages,
                 overflowPlacements>>

\* the body of entriesPerPage.forEach for the next page
DrawOverflowPage ==
  /\ UNCHANGED exceptOverflow
  /\ opc = "draw"
  /\ LET done == Len(SelectSeq(pdfPages, LAMBDA each : each.origin = "appendix"))
     IN /\ done < Len(entriesPerPage)
        /\ pdfPages' =
             Append(pdfPages,
                    [PageOf("appendix") EXCEPT
                       !.entries = drawEntries(entriesPerPage[done + 1],
                                               Helvetica, appendixBase.size),
                       !.cursorY = appendixCursor(entriesPerPage[done + 1],
                                                  Helvetica,
                                                  appendixBase.size)])
        /\ overflowPlacements' =
             overflowPlacements
             \o placementsOf(entriesPerPage[done + 1], getPageCount(pdfPages'))
        /\ opc' = IF done + 1 = Len(entriesPerPage) THEN "signoff" ELSE "draw"
  /\ UNCHANGED <<overflowInputs, fieldIndex, overflowTextEntries, entriesPerPage>>

\* clearOriginalSignoffSection and drawSignOffPage: pages are added at the end
DrawSignOffPages ==
  /\ UNCHANGED exceptOverflow
  /\ opc = "signoff"
  /\ pdfPages' = pdfPages \o [i \in 1..signOffPageCount |-> PageOf("signoff")]
  /\ opc' = "numbers"
  /\ UNCHANGED <<overflowInputs, fieldIndex, overflowTextEntries, entriesPerPage,
                 overflowPlacements>>

\* addPageNumbers and the footer: text is drawn on the pages there are
AddPageNumbers ==
  /\ UNCHANGED exceptOverflow
  /\ opc = "numbers"
  /\ pdfPages' = [i \in 1..Len(pdfPages) |-> [pdfPages[i] EXCEPT !.numbered = TRUE]]
  /\ opc' = "save"
  /\ UNCHANGED <<overflowInputs, fieldIndex, overflowTextEntries, entriesPerPage,
                 overflowPlacements>>

\* pdfDoc.save()
SaveDocument ==
  /\ UNCHANGED exceptOverflow
  /\ opc = "save"
  /\ opc' = "saved"
  /\ UNCHANGED <<overflowInputs, fieldIndex, overflowTextEntries, entriesPerPage,
                 pdfPages, overflowPlacements>>

\* ------------------------------------- POST /submit, requests interleaved
SubmitIdle ==
  /\ templateForm = <<>> /\ requestBody = <<>> /\ submitStep = <<>>
  /\ partsRowUsage = <<>> /\ employeeSummary = <<>> /\ formFields = <<>>
  /\ overflowQueues = <<>> /\ requestPlacements = <<>> /\ submitPen = <<>>
  /\ pdfOutput = <<>> /\ chosenName = <<>> /\ response = <<>>
  /\ outputDir = {} /\ suggestionStore = <<>> /\ storeFile = <<>>

SubmitInit ==
  /\ templateForm \in TemplateForms
  /\ requestBody \in [Requests -> SubmitBodies]
  /\ submitStep = [r \in Requests |-> "received"]
  /\ partsRowUsage = [r \in Requests |-> <<>>]
  /\ employeeSummary = [r \in Requests |-> EmptySummary]
  /\ formFields = [r \in Requests |-> [fields |-> <<>>, warned |-> <<>>]]
  /\ overflowQueues = [r \in Requests |-> <<>>]
  /\ requestPlacements = [r \in Requests |-> <<>>]
  /\ submitPen = [r \in Requests |-> NoPen]
  /\ pdfOutput = [r \in Requests |-> NoOutput]
  /\ chosenName = [r \in Requests |-> NoName]
  /\ response = [r \in Requests |-> NoResponse]
  /\ outputDir = {}
  /\ suggestionStore \in SuggestionStores
  /\ storeFile = suggestionStore

submitInputs == <<templateForm, requestBody>>

\* the catch of the handler: res.status(500).json({ ok: false, error })
Rejected(r, awaited) ==
  /\ submitStep' = [submitStep EXCEPT ![r] = "failed"]
  /\ response' = [response EXCEPT ![r] = [status |-> 500, error |-> awaited]]

\* the statements of the handler down to its first await
StartSubmit ==
  /\ UNCHANGED exceptSubmit
  /\ \E r \in Requests :
       /\ submitStep[r] = "received"
       /\ partsRowUsage' =
            [partsRowUsage EXCEPT ![r] = collectPartsRowUsage(requestBody[r])]
       /\ employeeSummary' =
            [employeeSummary EXCEPT
               ![r] = collectEmployeeEntries(requestBody[r], SubmitClock)]
       /\ submitStep' = [submitStep EXCEPT ![r] = SubmitSteps[1]]
  /\ UNCHANGED <<submitInputs, formFields, overflowQueues, requestPlacements,
                 submitPen, pdfOutput, chosenName, response, outputDir,
                 suggestionStore, storeFile>>

\* the template is read and loaded; the field loop runs to its end
FillForm ==
  /\ UNCHANGED exceptSubmit
  /\ \E r \in Requests, resolved \in BOOLEAN :
       /\ submitStep[r] = "loading"
       /\ IF resolved
          THEN \E filled \in {fillFrom(templateForm, requestBody[r], 1, EmptyFill)} :
                 /\ formFields' =
                      [formFields EXCEPT ![r] = [fields |-> filled.fields,
                                                 warned |-> filled.warned]]
                 /\ overflowQueues' =
                      [overflowQueues EXCEPT
                         ![queueScope(r)] = @ \o filled.entries]
                 /\ submitStep' = [submitStep EXCEPT ![r] = stepAfter("loading")]
                 /\ UNCHANGED response
          ELSE /\ Rejected(r, "loading")
               /\ UNCHANGED <<formFields, overflowQueues>>
  /\ UNCHANGED <<submitInputs, partsRowUsage, employeeSummary,
                 requestPlacements, submitPen, pdfOutput, chosenName,
                 outputDir, suggestionStore, storeFile>>

\* the images are embedded; form.flatten, appendOverflowPages, and
\* drawSignOffPage down to the end of the parts record
DrawPages ==
  /\ UNCHANGED exceptSubmit
  /\ \E r \in Requests, resolved \in BOOLEAN :
       /\ submitStep[r] = "images"
       /\ IF resolved
          THEN \E groups \in {IF overflowQueues[queueScope(r)] # <<>>
                              THEN entriesPerPageOf(overflowQueues[queueScope(r)],
                                                    GeneratedTemplate.size)
                              ELSE <<>>} :
                 /\ requestPlacements' =
                      [requestPlacements EXCEPT
                         ![r] = appendixPlacements(groups,
                                                   GeneratedTemplate.pages)]
                 /\ submitPen' =
                      [submitPen EXCEPT
                         ![r] = partsRecordPen(
                                  openSignOffPen(GeneratedTemplate.pages
                                                 + Len(groups),
                                                 GeneratedTemplate.size),
                                  GeneratedTemplate.size, partsRowUsage[r],
                                  Helvetica)]
                 /\ submitStep' = [submitStep EXCEPT ![r] = stepAfter("images")]
                 /\ UNCHANGED response
          ELSE /\ Rejected(r, "images")
               /\ UNCHANGED <<requestPlacements, submitPen>>
  /\ UNCHANGED <<submitInputs, partsRowUsage, employeeSummary, formFields,
                 overflowQueues, pdfOutput, chosenName, outputDir,
                 suggestionStore, storeFile>>

\* the signatures are embedded and the sign-off details page is added;
\* addPageNumbers and the footer
FinishSignOff ==
  /\ UNCHANGED exceptSubmit
  /\ \E r \in Requests, resolved \in BOOLEAN :
       /\ submitStep[r] = "signoff"
       /\ IF resolved
          THEN /\ submitPen' =
                    [submitPen EXCEPT
                       ![r] = addPageWithHeading(@, GeneratedTemplate.size,
                                                 "Sign-off details")]
               /\ submitStep' = [submitStep EXCEPT ![r] = stepAfter("signoff")]
               /\ UNCHANGED response
          ELSE /\ Rejected(r, "signoff")
               /\ UNCHANGED submitPen
  /\ UNCHANGED <<submitInputs, partsRowUsage, employeeSummary, formFields,
                 overflowQueues, requestPlacements, pdfOutput, chosenName,
                 outputDir, suggestionStore, storeFile>>

\* pdfDoc.save() returns the bytes; the file name is chosen
SavePdf ==
  /\ UNCHANGED exceptSubmit
  /\ \E r \in Requests, resolved \in BOOLEAN, timestamp \in Timestamps :
       /\ submitStep[r] = "saving"
       /\ \A s \in Requests : chosenName[s].base.timestamp <= timestamp
       /\ IF resolved
          THEN /\ pdfOutput' =
                    [pdfOutput EXCEPT
                       ![r] = [fields |-> formFields[r].fields,
                               placements |-> requestPlacements[r],
                               pageCount |-> submitPen[r].pageCount]]
               /\ chosenName' =
                    [chosenName EXCEPT
                       ![r] = freeNameFrom(
                                outputDir,
                                baseFilename(customerPartOf(requestBody[r]),
                                             timestamp), 0)]
               /\ submitStep' = [submitStep EXCEPT ![r] = stepAfter("saving")]
               /\ UNCHANGED response
          ELSE /\ Rejected(r, "saving")
               /\ UNCHANGED <<pdfOutput, chosenName>>
  /\ UNCHANGED <<submitInputs, partsRowUsage, employeeSummary, formFields,
                 overflowQueues, requestPlacements, submitPen, outputDir,
                 suggestionStore, storeFile>>

\* fs.promises.writeFile(outputPath, pdfOutput)
WritePdf ==
  /\ UNCHANGED exceptSubmit
  /\ \E r \in Requests, resolved \in BOOLEAN :
       /\ submitStep[r] = "writingPdf"
       /\ IF resolved
          THEN /\ outputDir' = writeFile(outputDir, chosenName[r], "pdf",
                                         pdfOutput[r])
               /\ submitStep' = [submitStep EXCEPT ![r] = stepAfter("writingPdf")]
               /\ UNCHANGED response
          ELSE /\ Rejected(r, "writingPdf")
               /\ UNCHANGED outputDir
  /\ UNCHANGED <<submitInputs, partsRowUsage, employeeSummary, formFields,
                 overflowQueues, requestPlacements, submitPen, pdfOutput,
                 chosenName, suggestionStore, storeFile>>

\* the sidecar is written; recordSuggestionsFromSubmission; res.json
WriteJson ==
  /\ UNCHANGED exceptSubmit
  /\ \E r \in Requests, resolved \in BOOLEAN, persisted \in BOOLEAN :
       /\ submitStep[r] = "writingJson"
       /\ IF resolved
          THEN /\ outputDir' =
                    writeFile(outputDir, chosenName[r], "json",
                              [overflowPlacements |-> requestPlacements[r]])
               /\ suggestionStore' =
                    recordSuggestionsFromSubmission(suggestionStore,
                                                    requestBody[r])
               /\ storeFile' =
                    IF suggestionStore' # suggestionStore /\ persisted
                    THEN suggestionStore' ELSE storeFile
               /\ submitStep' = [submitStep EXCEPT ![r] = stepAfter("writingJson")]
               /\ response' = [response EXCEPT ![r] = [status |-> 200, error |-> ""]]
          ELSE /\ ~persisted
               /\ Rejected(r, "writingJson")
               /\ UNCHANGED <<outputDir, suggestionStore, storeFile>>
  /\ UNCHANGED <<submitInputs, partsRowUsage, employeeSummary, formFields,
                 overflowQueues, requestPlacements, submitPen, pdfOutput,
                 chosenName>>

\* ------------------------- the layout functions called without a font,
\* ------------------------- a widget or a usable width
\* the widths of a direct call, in points: none to speak of, room for two
\* narrow glyphs or one wide one, room for two wide ones; and NaN
CallWidths ==
  {Num(WidthPt * w) : w \in {0 - 1, 0, 5, 12}}
  \cup {[finite |-> FALSE, val |-> 0]}

CallRectangle == [x1 |-> 40, y1 |-> 100, x2 |-> 54, y2 |-> 120]

CallStyle == [DEFAULT_TEXT_FIELD_STYLE EXCEPT !.multiline = TRUE]

IsWord(text) == text # <<>> /\ \A i \in 1..Len(text) : ~IsSpace(text[i])

NoCall == [text |-> <<>>, font |-> NoFont, widget |-> NoWidget,
           maxWidth |-> Num(0)]

CallsIdle ==
  /\ callee = "idle" /\ callArgs = NoCall /\ callResult = <<>>
  /\ callThrew = FALSE

CallsInit ==
  /\ callee = "pending"
  /\ callArgs \in [text : Texts, font : {Helvetica, NoFont},
                   widget : {CallRectangle, NoWidget}, maxWidth : CallWidths]
  /\ callResult = <<>>
  /\ callThrew = FALSE

CallWrapTextToWidth ==
  /\ UNCHANGED exceptCalls
  /\ callee = "pending"
  /\ callee' = "wrapTextToWidth"
  /\ callThrew' = (wrapMeasures(callArgs.text, callArgs.font, callArgs.maxWidth)
                   /\ measureThrows(callArgs.font))
  /\ callResult' = IF callThrew' THEN <<>>
                   ELSE wrapTextToWidth(callArgs.text, callArgs.font,
                                        CallStyle.fontSize, callArgs.maxWidth)
  /\ UNCHANGED callArgs

CallSplitLongWord ==
  /\ UNCHANGED exceptCalls
  /\ callee = "pending" /\ IsWord(callArgs.text)
  /\ callee' = "splitLongWord"
  /\ callThrew' = (splitMeasures(callArgs.text, callArgs.font, callArgs.maxWidth)
                   /\ measureThrows(callArgs.font))
  /\ callResult' = IF callThrew' THEN <<>>
                   ELSE splitLongWord(callArgs.text, callArgs.font,
                                      CallStyle.fontSize, callArgs.maxWidth)
  /\ UNCHANGED callArgs

CallLayoutTextForWidth ==
  /\ UNCHANGED exceptCalls
  /\ callee = "pending"
  /\ callee' = "layoutTextForWidth"
  /\ callThrew' = (widthMeasures(callArgs.font, callArgs.maxWidth)
                   /\ measureThrows(callArgs.font))
  /\ callResult' = IF callThrew' THEN <<>>
                   ELSE layoutTextForWidth(callArgs.text, callArgs.font,
                                           CallStyle.fontSize,
                                           CallStyle.minFontSize,
                                           CallStyle.lineHeightMultiplier,
                                           callArgs.maxWidth)
  /\ UNCHANGED callArgs

\* past its guard, layoutTextForField reads widget.getRectangle() and wraps
CallLayoutTextForField ==
  /\ UNCHANGED exceptCalls
  /\ callee = "pending"
  /\ callee' = "layoutTextForField"
  /\ callThrew' = FALSE
  /\ callResult' = layoutTextForField(callArgs.text, callArgs.font, CallStyle,
                                      callArgs.widget)
  /\ UNCHANGED callArgs

\* ------------------------------------------------------- specifications
InitLayout ==
  LayoutInit /\ EmployeeIdle /\ BreakIdle /\ CellIdle /\ SignOffIdle
  /\ OverflowIdle /\ SubmitIdle /\ CallsIdle /\ TableIdle
NextLayout == LayoutEnter \/ ShrinkStep \/ LayoutReturn \/ LayoutAgain
SpecLayout == InitLayout /\ [][NextLayout]_vars

InitExample ==
  ExampleInit /\ EmployeeIdle /\ BreakIdle /\ CellIdle /\ SignOffIdle
  /\ OverflowIdle /\ SubmitIdle /\ CallsIdle /\ TableIdle
NextExample == LayoutEnter \/ ShrinkStep \/ LayoutReturn \/ LayoutAgain
SpecExample == InitExample /\ [][NextExample]_vars

InitEmployees ==
  EmployeeInit /\ LayoutIdle /\ BreakIdle /\ CellIdle /\ SignOffIdle
  /\ OverflowIdle /\ SubmitIdle /\ CallsIdle /\ TableIdle
NextEmployees == CollectEmployeeEntries
SpecEmployees == InitEmployees /\ [][NextEmployees]_vars

InitBreak ==
  BreakInit /\ LayoutIdle /\ EmployeeIdle /\ CellIdle /\ SignOffIdle
  /\ OverflowIdle /\ SubmitIdle /\ CallsIdle /\ TableIdle
NextBreak == DetermineBreak
SpecBreak == InitBreak /\ [][NextBreak]_vars

InitCell ==
  CellInit /\ LayoutIdle /\ EmployeeIdle /\ BreakIdle /\ SignOffIdle
  /\ OverflowIdle /\ SubmitIdle /\ CallsIdle /\ TableIdle
NextCell == LayoutTextForWidth
SpecCell == InitCell /\ [][NextCell]_vars

InitSignOff ==
  SignOffInit /\ LayoutIdle /\ EmployeeIdle /\ BreakIdle /\ CellIdle
  /\ OverflowIdle /\ SubmitIdle /\ CallsIdle /\ TableIdle
NextSignOff ==
  \/ CollectPartsRowUsage \/ OpenSignOffPage
  \/ PartsHeading \/ PartsRow \/ PartsEnd
  \/ TeamHeading \/ TeamRow \/ TeamEnd
  \/ ChecklistHeading \/ ChecklistRow \/ ChecklistEnd
  \/ SignOffDetails \/ Signatures
SpecSignOff == InitSignOff /\ [][NextSignOff]_vars

InitOverflow ==
  OverflowInit /\ LayoutIdle /\ EmployeeIdle /\ BreakIdle /\ CellIdle
  /\ SignOffIdle /\ SubmitIdle /\ CallsIdle /\ TableIdle
NextOverflow ==
  \/ FillTextField \/ PackOverflowEntries \/ DrawOverflowPage
  \/ DrawSignOffPages \/ AddPageNumbers \/ SaveDocument
SpecOverflow == InitOverflow /\ [][NextOverflow]_vars

InitSubmit ==
  SubmitInit /\ LayoutIdle /\ EmployeeIdle /\ BreakIdle /\ CellIdle
  /\ SignOffIdle /\ OverflowIdle /\ CallsIdle /\ TableIdle
NextSubmit ==
  \/ StartSubmit \/ FillForm \/ DrawPages \/ FinishSignOff \/ SavePdf
  \/ WritePdf \/ WriteJson
SpecSubmit == InitSubmit /\ [][NextSubmit]_vars

InitCalls ==
  CallsInit /\ LayoutIdle /\ EmployeeIdle /\ BreakIdle /\ CellIdle
  /\ SignOffIdle /\ OverflowIdle /\ SubmitIdle /\ TableIdle
NextCalls ==
  CallWrapTextToWidth \/ CallSplitLongWord \/ CallLayoutTextForWidth
  \/ CallLayoutTextForField
SpecCalls == InitCalls /\ [][NextCalls]_vars

\* --------------------------------------- the parts table of the form page
\* two of the five inputs of a row
InputNames == {"parts_removed_desc", "parts_used_part"}

MaxTyped == 1

enableRow(row) ==
  [hidden |-> FALSE,
   inputs |-> [n \in InputNames |-> [row.inputs[n] EXCEPT !.disabled = FALSE]]]

\* mutant: a row is hidden with what was typed into it
disableRowKeeping(row, clear) ==
  [hidden |-> TRUE,
   inputs |-> [n \in InputNames |-> [row.inputs[n] EXCEPT !.disabled = TRUE]]]

disableRow(row, clear) ==
  [hidden |-> TRUE,
   inputs |->
     [n \in InputNames |->
        [value |-> IF clear THEN <<>> ELSE row.inputs[n].value,
         disabled |-> TRUE]]]

visibleRows(rows) == {i \in DOMAIN rows : ~rows[i].hidden}
hiddenRows(rows) == {i \in DOMAIN rows : rows[i].hidden}

\* refresh: the disabled properties of the two buttons
addDisabled(rows) == Cardinality(visibleRows(rows)) >= Len(rows)
removeDisabled(rows) == Cardinality(visibleRows(rows)) <= 1

hasText(row) == \E n \in InputNames : Len(trim(row.inputs[n].value)) > 0

setupRow(row, index) ==
  IF index = 1 THEN enableRow(row)
  ELSE IF hasText(row) THEN enableRow(row)
  ELSE disableRow(row, TRUE)

Greatest(indices) == CHOOSE i \in indices : \A j \in indices : j <= i

\* the page as rendered: only the first row shown, the demo values in its
\* inputs; a reloaded page may come back with text the browser kept
RenderedInput(content) == [value |-> content, disabled |-> FALSE]
RenderedRows(demo, keptRow, keptInput, kept) ==
  [i \in 1..PARTS_ROW_COUNT |->
     [hidden |-> i # 1,
      inputs |->
        [n \in InputNames |->
           RenderedInput(IF i = keptRow /\ n = keptInput THEN kept
                         ELSE IF i = 1 THEN demo ELSE <<>>)]]]

TableInit ==
  /\ tableStep = "rendered"
  /\ \E demo \in {<<>>, <<"a">>}, keptRow \in 1..PARTS_ROW_COUNT,
        keptInput \in InputNames, kept \in {<<>>, <<"a">>, <<" ">>} :
       tableRows = RenderedRows(demo, keptRow, keptInput, kept)
  /\ addButton = FALSE /\ removeButton = FALSE
  /\ lastEvent = "none" /\ typed = 0

SetupPartsTable ==
  /\ tableStep = "rendered"
  /\ \E rows \in {[i \in DOMAIN tableRows |-> setupRow(tableRows[i], i)]} :
       /\ tableRows' = rows
       /\ addButton' = addDisabled(rows)
       /\ removeButton' = removeDisabled(rows)
  /\ tableStep' = "ready"
  /\ lastEvent' = "setup"
  /\ UNCHANGED typed
  /\ UNCHANGED exceptTable

\* a click reaches the listener only while the button is not disabled
ClickAddRow ==
  /\ tableStep = "ready" /\ ~addButton
  /\ \E rows \in {IF hiddenRows(tableRows) = {} THEN tableRows
                   ELSE [tableRows EXCEPT
                           ![Least(hiddenRows(tableRows))] = enableRow(@)]} :
       /\ tableRows' = rows
       /\ addButton' = IF hiddenRows(tableRows) = {} THEN addButton
                       ELSE addDisabled(rows)
       /\ removeButton' = IF hiddenRows(tableRows) = {} THEN removeButton
                          ELSE removeDisabled(rows)
  /\ lastEvent' = "add"
  /\ UNCHANGED <<tableStep, typed>>
  /\ UNCHANGED exceptTable

ClickRemoveRow ==
  /\ tableStep = "ready" /\ ~removeButton
  /\ \E rows \in {IF Cardinality(visibleRows(tableRows)) <= 1 THEN tableRows
                   ELSE [tableRows EXCEPT
                           ![Greatest(visibleRows(tableRows))] =
                             disableRow(@, TRUE)]} :
       /\ tableRows' = rows
       /\ addButton' = IF Cardinality(visibleRows(tableRows)) <= 1
                       THEN addButton ELSE addDisabled(rows)
       /\ removeButton' = IF Cardinality(visibleRows(tableRows)) <= 1
                          THEN removeButton ELSE removeDisabled(rows)
  /\ lastEvent' = "remove"
  /\ UNCHANGED <<tableStep, typed>>
  /\ UNCHANGED exceptTable

\* the user edits an input of a row that is shown
TypeInRow ==
  /\ tableStep = "ready" /\ typed < MaxTyped
  /\ \E i \in visibleRows(tableRows), n \in InputNames,
        content \in {<<>>, <<"a">>} :
       /\ ~tableRows[i].inputs[n].disabled
       /\ tableRows[i].inputs[n].value # content
       /\ tableRows' = [tableRows EXCEPT ![i].inputs[n].value = content]
  /\ typed' = typed + 1
  /\ lastEvent' = "input"
  /\ UNCHANGED <<tableStep, addButton, removeButton>>
  /\ UNCHANGED exceptTable

InitTable ==
  TableInit /\ LayoutIdle /\ EmployeeIdle /\ BreakIdle /\ CellIdle
  /\ SignOffIdle /\ OverflowIdle /\ SubmitIdle /\ CallsIdle
NextTable == SetupPartsTable \/ ClickAddRow \/ ClickRemoveRow \/ TypeInRow
SpecTable == InitTable /\ [][NextTable]_vars

\* =================================================================
\* Properties of the field layout (SpecLayout)
\* =================================================================
Measured == pc \in {"loop", "break", "done"} /\ font # NoFont /\ widget # NoWidget
Returned == pc = "done" /\ font # NoFont /\ widget # NoWidget

LineFits(line, size, maxWidth) == widthOfTextAtSize(line, size) <= maxWidth
LoneWideGlyph(line, size, maxWidth) ==
  Len(line) = 1 /\ widthOfTextAtSize(line, size) > maxWidth

\* C1: every line returned by wrapTextToWidth is at most maxWidth wide, or is
\* a single character that is wider than maxWidth on its own.
C1_WrapWithinWidth ==
  Measured =>
    \A i \in 1..Len(wrappedLines) :
      \/ LineFits(wrappedLines[i], workingSize, fieldWidth(widget))
      \/ LoneWideGlyph(wrappedLines[i], workingSize, fieldWidth(widget))

\* a wrap that produced both a lone too-wide character and a fitting line
C1_Witness ==
  /\ Measured
  /\ \E i \in 1..Len(wrappedLines) :
       LoneWideGlyph(wrappedLines[i], workingSize, fieldWidth(widget))
  /\ \E i \in 1..Len(wrappedLines) :
       /\ Len(wrappedLines[i]) > 1
       /\ LineFits(wrappedLines[i], workingSize, fieldWidth(widget))

\* fittedText and overflowText joined in order, with a line break between
\* them when there is an overflow part
JoinParts(fitted, overflow) ==
  IF overflow = <<>> THEN fitted ELSE fitted \o <<NL>> \o overflow

\* the number of wrapped lines that were kept as fittedText
KeptCount == Min(layout.displayedLines, Len(wrappedLines))

\* C2 as stated: fittedText and overflowText joined with a line break are
\* exactly the wrapped lines at the applied font size, blank lines at the
\* split point included.
C2_Original ==
  Returned =>
    JoinParts(layout.fieldText, layout.overflowText) = join(wrappedLines)

\* C2 amended: fittedText and overflowText joined with a line break are the
\* wrapped lines at the applied font size without the blank lines that
\* directly follow the last kept line; every other line appears once, in order.
C2_Conservation ==
  Returned =>
    JoinParts(layout.fieldText, layout.overflowText) =
      join(SubSeq(wrappedLines, 1, KeptCount) \o
           stripLeadingEmptyLines(
             SubSeq(wrappedLines, KeptCount + 1, Len(wrappedLines))))

\* a split with a blank line right after the kept lines and text after it
C2_Witness ==
  /\ Returned
  /\ KeptCount + 1 < Len(wrappedLines)
  /\ wrappedLines[KeptCount + 1] = <<>>
  /\ layout.overflowText # <<>>

\* C3: displayedLines <= totalLines, and overflowText is empty exactly when
\* displayedLines = totalLines, in single-line and multiline mode.
C3_LineCounts ==
  Returned =>
    /\ layout.displayedLines <= layout.totalLines
    /\ (layout.overflowText = <<>>) <=>
         (layout.displayedLines = layout.totalLines)

OverflowAt(size) ==
  HasInk(LET lines == wrapTextToWidth(value, font, size,
                                      Num(fieldWidth(widget)))
             height == Max(Pt * (widget.y2 - widget.y1 - 4),
                           (Pt \div 2) * fontSize)
             budget == Max(1, height \div (size * lineHeightMultiplier))
         IN stripLeadingEmptyLines(
              SubSeq(lines, (IF multiline THEN budget ELSE 1) + 1, Len(lines))))

\* C4: the sizes tried are fontSize, fontSize - 0.5, ... clamped at
\* minFontSize; the result is the layout of the first size without overflow,
\* or of minFontSize when every size overflows; minFontSize <= appliedFontSize
\* <= fontSize; at most ceil((fontSize - minFontSize) / 0.5) re-layouts.
C4_ShrinkLoop ==
  Returned =>
    /\ tried # <<>> /\ tried[1] = fontSize
    /\ \A i \in 2..Len(tried) : tried[i] = Max(minFontSize, tried[i - 1] - 1)
    /\ \A i \in 1..(Len(tried) - 1) : OverflowAt(tried[i])
    /\ ~OverflowAt(tried[Len(tried)]) \/ tried[Len(tried)] = minFontSize
    /\ layout.appliedFontSize = tried[Len(tried)]
    /\ layout.overflowDetected = OverflowAt(tried[Len(tried)])
    /\ layout.appliedFontSize >= minFontSize
    /\ layout.appliedFontSize <= fontSize
    /\ Len(tried) - 1 <= fontSize - minFontSize

\* the loop shrank at least twice and stopped above minFontSize
C4_Witness ==
  /\ Returned
  /\ Len(tried) >= 3
  /\ ~layout.overflowDetected
  /\ layout.appliedFontSize > minFontSize

\* C5 as stated: laying out the previous fittedText at the previous
\* appliedFontSize gives no overflow and the same fittedText.
C5_Original ==
  (Returned /\ pass = 2) =>
    /\ layout.overflowText = <<>>
    /\ layout.fieldText = first.layout.fieldText

\* C5 amended: laying out the previous fittedText at the previous
\* appliedFontSize gives no overflow, and the previous fittedText without its
\* trailing blank lines.
C5_Idempotent ==
  (Returned /\ pass = 2) =>
    /\ layout.overflowText = <<>>
    /\ ~layout.overflowDetected
    /\ layout.fieldText =
         join(stripTrailingEmptyLines(splitLines(first.layout.fieldText)))

\* the second call ran on a text that the first call had shrunk and cut
C5_Witness ==
  /\ Returned /\ pass = 2
  /\ first.layout.overflowDetected
  /\ first.layout.appliedFontSize < first.fontSize
  /\ first.layout.fieldText # <<>>

\* floor(height / (size * 1.2)), floored at 1; size * 12 is the line height
LineBudget(height, size) == Max(1, height \div (size * 12))

\* C6 as stated: in multiline mode the first maxLines wrapped lines are the
\* fittedText and the rest (read without the blank lines at its start) is the
\* overflowText, with maxLines =
\* max(1, floor(rectangle.height / (fontSize * lineHeightMultiplier))).
C6_Original ==
  (Returned /\ multiline) =>
    LET height == Pt * (widget.y2 - widget.y1)
        n == LineBudget(height, layout.appliedFontSize)
    IN /\ layout.fieldText = join(SubSeq(wrappedLines, 1, Min(n, Len(wrappedLines))))
       /\ layout.overflowText =
            join(stripLeadingEmptyLines(SubSeq(wrappedLines, n + 1, Len(wrappedLines))))

\* C6 amended: in multiline mode the first maxLines wrapped lines are the
\* fittedText and the rest, without the blank lines at its start, is the
\* overflowText, with maxLines = max(1, floor(h / (size * multiplier))) and
\* h = max(rectangle.height - 2 * 2, policy fontSize).
C6_MultilineBudget ==
  (Returned /\ multiline) =>
    LET height == Max(Pt * (widget.y2 - widget.y1) - 4 * Pt, 10 * fontSize)
        n == LineBudget(height, layout.appliedFontSize)
    IN /\ layout.fieldText = join(SubSeq(wrappedLines, 1, Min(n, Len(wrappedLines))))
       /\ layout.overflowText =
            join(stripLeadingEmptyLines(SubSeq(wrappedLines, n + 1, Len(wrappedLines))))

\* multiline, a budget of at least two lines, and more lines than the budget
C6_Witness ==
  /\ Returned /\ multiline
  /\ layout.displayedLines >= 2
  /\ Len(wrappedLines) > layout.displayedLines
  /\ layout.overflowText # <<>>

NonBlank(lines) == SelectSeq(lines, LAMBDA line : trim(line) # <<>>)

\* C7: in single-line mode fittedText is the first wrapped line and every
\* later non-blank wrapped line is in overflowText, in order.
C7_SingleLine ==
  (Returned /\ ~multiline) =>
    /\ layout.fieldText =
         (IF wrappedLines = <<>> THEN <<>> ELSE wrappedLines[1])
    /\ NonBlank(splitLines(layout.overflowText)) =
         NonBlank(SubSeq(wrappedLines, 2, Len(wrappedLines)))

\* single-line mode with a blank line and a non-blank line after the first
C7_Witness ==
  /\ Returned /\ ~multiline
  /\ Len(wrappedLines) >= 3
  /\ wrappedLines[2] = <<>>
  /\ layout.overflowText # <<>>

\* =================================================================
\* Properties of the break tiers (SpecBreak)
\* =================================================================

\* C8: 1..360 minutes need no break, 361..540 the 30-minute break, 541 and
\* more the 45-minute break; 0, a negative or a non-finite duration is pending.
C8_BreakTiers ==
  bpc = "done" =>
    /\ (minutes.finite /\ minutes.val >= 1 /\ minutes.val <= 360) =>
         breakInfo = [code |-> "NONE", minutes |-> 0]
    /\ (minutes.finite /\ minutes.val >= 361 /\ minutes.val <= 540) =>
         breakInfo = [code |-> "MIN30", minutes |-> 30]
    /\ (minutes.finite /\ minutes.val >= 541) =>
         breakInfo = [code |-> "MIN45", minutes |-> 45]
    /\ (~minutes.finite \/ minutes.val <= 0) =>
         breakInfo = [code |-> "UNKNOWN", minutes |-> 0]

\* the upper bound of the 30-minute tier has been classified
C8_Witness ==
  bpc = "done" /\ minutes = Num(540) /\ breakInfo.code = "MIN30"

\* =================================================================
\* Properties of the employee roster (SpecEmployees)
\* =================================================================
Collected == epc = "done" /\ ~threw

\* the request record an entry was made from
SourceRecord(entry) ==
  recordOf(IF body.employees.kind = "array" /\ body.flat = <<>>
           THEN body.employees.items[entry.index]
           ELSE IF body.employees.kind = "map"
           THEN body.employees.entries[entry.index - 25].value
           ELSE body.flat[entry.index])

GivenArrival(entry) == trimmedOrEmpty(SourceRecord(entry).arrival)
GivenDeparture(entry) == trimmedOrEmpty(SourceRecord(entry).departure)
Parses(text) == parseLocalDateTime(text) # NoDate

\* C9: a record whose departure is not later than its arrival gives an entry
\* with departure = arrival + 15 minutes, durationMinutes = 15, no break.
C9_FifteenMinuteCorrection ==
  Collected =>
    \A i \in 1..Len(summary.entries) :
      LET entry == summary.entries[i]
          arrival == parseLocalDateTime(GivenArrival(entry))
          departure == parseLocalDateTime(GivenDeparture(entry))
      IN (arrival # NoDate /\ departure # NoDate /\ departure <= arrival) =>
           /\ entry.departure = formatIsoFromDate(arrival + 15 * 60)
           /\ entry.durationMinutes = 15
           /\ entry.breakCode = "NONE"

RECURSIVE Flatten(_)
Flatten(lines) ==
  IF lines = <<>> THEN <<>> ELSE Head(lines) \o Flatten(Tail(lines))

Ink(text) == SelectSeq(text, LAMBDA c : ~IsSpace(c))

\* C12: layoutTextForWidth never drops text: the characters of the returned
\* lines that are not white space, read in order, are those of the input, in
\* order, for every maxWidth, also when a line is still wider than maxWidth
\* at minFontSize.
C12_NoTextDropped ==
  cpc = "done" => Ink(Flatten(cellLayout.lines)) = Ink(cellValue)

\* the loop ended at minFontSize with a line wider than maxWidth, beside a
\* line that fits
C12_Witness ==
  /\ cpc = "done" /\ cellFont = Helvetica
  /\ cellMaxWidth.finite /\ cellMaxWidth.val > 0
  /\ cellLayout.fontSize = cellStyle.minFontSize
  /\ \E i \in 1..Len(cellLayout.lines) :
       widthOfTextAtSize(cellLayout.lines[i], cellLayout.fontSize)
         > cellMaxWidth.val + FitTolerance
  /\ \E i \in 1..Len(cellLayout.lines) :
       /\ cellLayout.lines[i] # <<>>
       /\ widthOfTextAtSize(cellLayout.lines[i], cellLayout.fontSize)
            <= cellMaxWidth.val


\* =================================================================
\* Properties of the sign-off pages (SpecSignOff)
\* =================================================================
Collected11 == stage \notin {"idle", "collect"}

\* the value of a field as the request sent it: the last one when repeated
SentText(v) ==
  LET last == IF v.kind = "array"
              THEN (IF v.items = <<>> THEN Undefined ELSE v.items[Len(v.items)])
              ELSE v
  IN IF last.kind = "string" THEN last.chars ELSE <<>>

HasInkIn(text) == \E i \in 1..Len(text) : text[i] \notin {" ", NL}

SlotHasData(slot) ==
  /\ slot <= Len(signBody.parts)
  /\ \E prefix \in DOMAIN signBody.parts[slot] :
       HasInkIn(SentText(signBody.parts[slot][prefix]))

RECURSIVE DataSlotsFrom(_)
DataSlotsFrom(slot) ==
  IF slot > 15 THEN <<>>
  ELSE (IF SlotHasData(slot) THEN <<slot>> ELSE <<>>) \o DataSlotsFrom(slot + 1)

PartsMarks ==
  SelectSeq(drawn, LAMBDA mark : mark.op = "row" /\ mark.section = "Parts record")

PartsDone == Collected11 /\ stage \notin {"open", "Parts record"}

\* C11: every one of the 15 slots has hasData exactly when one of its five
\* fields has a character left after trimming; the rows drawn in the parts
\* table are the slots with data, each once, in slot order (a slot without
\* data is never among them), and each row is at least 22 points high.
C11_PartsRows ==
  Collected11 =>
    /\ Len(partsRows) = 15
    /\ \A slot \in 1..15 :
         /\ partsRows[slot].number = slot
         /\ partsRows[slot].hasData = SlotHasData(slot)
    /\ Len(PartsMarks) <= Len(DataSlotsFrom(1))
    /\ \A i \in 1..Len(PartsMarks) :
         /\ PartsMarks[i].number = DataSlotsFrom(1)[i]
         /\ PartsMarks[i].height >= 22
    /\ PartsDone => Len(PartsMarks) = Len(DataSlotsFrom(1))

\* a request whose first slot holds white space only and whose second slot
\* holds a value of three lines: one row is drawn, for slot 2, higher than 22
C11_Witness ==
  /\ stage = "done"
  /\ Len(signBody.parts) = 2
  /\ ~SlotHasData(1) /\ \E prefix \in DOMAIN signBody.parts[1] :
                          SentText(signBody.parts[1][prefix]) # <<>>
  /\ Len(PartsMarks) = 1
  /\ PartsMarks[1].number = 2 /\ PartsMarks[1].height > 22

\* the marks a step has added
Added == SubSeq(drawn', Len(drawn) + 1, Len(drawn'))
Top == baseSize.height - 56 * PagePt

\* the height ensureSpace is asked for before a row: 6 points more than the
\* row in the parts record, 8 points more in the other tables
Required(mark) == mark.height + (IF mark.section = "Parts record" THEN 6 ELSE 8)

RowStep == Added # <<>> /\ Added[Len(Added)].op = "row"

FitsStep(row) ==
  /\ pageCount' = pageCount /\ page' = page
  /\ Added = <<row>>
  /\ row.page = page /\ row.y = cursorY
  /\ cursorY' = cursorY - row.height * PagePt

BreakStep(row) ==
  /\ pageCount' = pageCount + 1 /\ page' = pageCount + 1
  /\ Len(Added) = 4
  /\ \A i \in 1..4 : Added[i].page = pageCount + 1
  /\ Added[1].op = "heading" /\ Added[1].y = Top
  /\ Added[2].op = "title" /\ Added[2].section = row.section
  /\ Added[2].label = row.section \o " (cont.)"
  /\ Added[2].y = Top - 26 * PagePt
  /\ Added[3].op = "header" /\ Added[3].section = row.section
  /\ Added[3].y = Top - (26 + 18) * PagePt
  /\ Added[4] = row /\ row.y = Top - (26 + 18 + 18) * PagePt
  /\ cursorY' = row.y - row.height * PagePt

\* C13: a step that draws a table row whose required height does not fit
\* above the bottom margin adds one page, and draws on it, from the top, the
\* page heading, the section title with "(cont.)", the table header and then
\* the row; a step whose row fits adds no page, draws the row at the cursor
\* and moves the cursor down by the row height only.
C13_RowPlacement ==
  [][RowStep =>
       LET row == Added[Len(Added)] IN
       IF cursorY - Required(row) * PagePt < 56 * PagePt
       THEN BreakStep(row)
       ELSE FitsStep(row)]_vars

\* a parts row and a checklist row have each been drawn after a page break,
\* and a row has been drawn right below another
C13_Witness ==
  /\ \E section \in {"Parts record"} :
       \E i \in 4..Len(drawn) :
         /\ drawn[i].op = "row" /\ drawn[i].section = section
         /\ drawn[i - 1].op = "header" /\ drawn[i - 2].op = "title"
         /\ drawn[i - 3].op = "heading" /\ drawn[i - 3].page = drawn[i].page
  /\ \E i \in 4..Len(drawn) :
       /\ drawn[i].op = "row" /\ drawn[i].section = "LED display checks"
       /\ drawn[i - 1].op = "header" /\ drawn[i - 2].op = "title"
       /\ drawn[i - 3].op = "heading" /\ drawn[i - 3].page = drawn[i].page
  /\ \E i \in 2..Len(drawn) :
       /\ drawn[i].op = "row" /\ drawn[i - 1].op = "row"
       /\ drawn[i].page = drawn[i - 1].page
       /\ drawn[i].y = drawn[i - 1].y - drawn[i - 1].height * PagePt

SectionOrder ==
  <<"Parts record", "On-site team", "LED display checks", "Control equipment",
    "Spare parts", "Sign-off checklist", "Sign-off details", "Signatures">>
Rank(section) == CHOOSE i \in 1..Len(SectionOrder) : SectionOrder[i] = section
SectionMarks == SelectSeq(drawn, LAMBDA mark : mark.section # "")
Opening(section) ==
  SelectSeq(drawn, LAMBDA mark : mark.op = "title" /\ mark.section = section
                                 /\ mark.label = section)

\* C14: what is drawn belongs to the sections in the order parts record,
\* on-site team, LED display checks, Control equipment, Spare parts, sign-off
\* checklist, sign-off details, signatures: nothing of a section is drawn
\* after something of a later section, no section is opened twice, and when
\* the pass ends every section has been drawn.
C14_SectionOrder ==
  /\ \A i \in 1..Len(SectionMarks) :
       SectionMarks[i].section \in {SectionOrder[k] : k \in 1..Len(SectionOrder)}
  /\ \A i \in 2..Len(SectionMarks) :
       Rank(SectionMarks[i - 1].section) <= Rank(SectionMarks[i].section)
  /\ \A k \in 1..Len(SectionOrder) : Len(Opening(SectionOrder[k])) <= 1
  /\ stage = "done" =>
       \A k \in 1..Len(SectionOrder) :
         \E i \in 1..Len(SectionMarks) : SectionMarks[i].section = SectionOrder[k]

\* a finished pass with parts, a team and continuation pages in between
C14_Witness ==
  /\ stage = "done"
  /\ Len(PartsMarks) > 0 /\ employees # <<>>
  /\ \E i \in 1..Len(drawn) :
       drawn[i].op = "heading" /\ drawn[i].label = "Maintenance Summary (cont.)"
  /\ \A k \in 1..Len(SectionOrder) :
       \E i \in 1..Len(SectionMarks) : SectionMarks[i].section = SectionOrder[k]

\* ------------------------------ Properties of the appendix (SpecOverflow)
Packed == opc \in {"draw", "signoff", "numbers", "save", "saved"} /\ overflowTextEntries # <<>>

Cost(entry) == Len(splitLines(entry.text)) + 2

RECURSIVE CostOf(_)
CostOf(entries) ==
  IF entries = <<>> THEN 0 ELSE Cost(Head(entries)) + CostOf(Tail(entries))

Capacity == (appendixBase.size.height - 2 * 56 * 100) \div 1200

RECURSIVE Concat(_)
Concat(groups) ==
  IF groups = <<>> THEN <<>> ELSE Head(groups) \o Concat(Tail(groups))

\* C15: the packing pass keeps the input order; an entry of cost lines + 2
\* opens a new appendix page exactly when the page is not empty and the
\* running cost plus its cost exceeds floor((pageHeight - 2 * margin) /
\* lineHeight); a page costs more than that only when it holds one entry
C15_Packing ==
  Packed =>
    /\ Concat(entriesPerPage) = overflowTextEntries
    /\ \A p \in 1..Len(entriesPerPage) :
         LET group == entriesPerPage[p] IN
         /\ group # <<>>
         /\ \A k \in 2..Len(group) :
              CostOf(SubSeq(group, 1, k - 1)) + Cost(group[k]) <= Capacity
         /\ p > 1 => CostOf(entriesPerPage[p - 1]) + Cost(group[1]) > Capacity
         /\ CostOf(group) > Capacity => Len(group) = 1

C15_Witness ==
  /\ Packed /\ Len(entriesPerPage) = 2
  /\ Len(entriesPerPage[1]) = 2 /\ CostOf(entriesPerPage[1]) = Capacity
  /\ Len(entriesPerPage[2]) = 1 /\ CostOf(entriesPerPage[2]) > Capacity

Drawn == opc \in {"signoff", "numbers", "save", "saved"}

Queued ==
  SelectSeq([i \in 1..Len(fieldLayouts) |-> i],
            LAMBDA i : /\ i < fieldIndex
                       /\ fieldLayouts[i].overflowDetected
                       /\ \E k \in 1..Len(fieldLayouts[i].overflowText) :
                            fieldLayouts[i].overflowText[k] \notin {" ", NL})

PagesShowing(name) ==
  {p \in 1..Len(pdfPages) :
     \E k \in 1..Len(pdfPages[p].entries) : pdfPages[p].entries[k].acroName = name}

TimesDrawn(name) ==
  Cardinality({<<p, k>> \in (1..Len(pdfPages)) \X (1..MaxFields) :
                 /\ k <= Len(pdfPages[p].entries)
                 /\ pdfPages[p].entries[k].acroName = name})

\* C16: once the appendix is drawn, the placements are those of the queued
\* entries, one each and in input order, and the page of a placement is the
\* 1-based index in the document of the one appendix page that shows the
\* entry's label and text; this stays so through the sign-off pages, the
\* page numbers and the save
C16_Placements ==
  /\ [i \in 1..Len(overflowTextEntries) |-> overflowTextEntries[i].acroName] = Queued
  /\ Drawn =>
       /\ Len(overflowPlacements) = Len(overflowTextEntries)
       /\ \A i \in 1..Len(overflowTextEntries) :
            LET entry == overflowTextEntries[i]
                placement == overflowPlacements[i]
            IN /\ placement.acroName = entry.acroName
               /\ placement.requestName = entry.requestName
               /\ TimesDrawn(entry.acroName) = 1
               /\ PagesShowing(entry.acroName) = {placement.page}
               /\ pdfPages[placement.page].origin = "appendix"
               /\ \E k \in 1..Len(pdfPages[placement.page].entries) :
                    LET item == pdfPages[placement.page].entries[k] IN
                    /\ item.acroName = entry.acroName
                    /\ Ink(Concat(item.lines)) = Ink(entry.text)
       /\ \A i, j \in 1..Len(overflowPlacements) :
            i < j => overflowPlacements[i].page <= overflowPlacements[j].page

C16_Witness ==
  /\ opc = "saved" /\ Len(overflowPlacements) = 3
  /\ overflowPlacements[1].page = appendixBase.pages + 1
  /\ overflowPlacements[2].page = appendixBase.pages + 1
  /\ overflowPlacements[3].page = appendixBase.pages + 2
  /\ Len(pdfPages) = appendixBase.pages + 2 + signOffPageCount
  /\ \A p \in 1..Len(pdfPages) : pdfPages[p].numbered

\* ----------------------- Properties of the submission handler (SpecSubmit)
Filled(r) == formFields[r].fields # <<>> \/ formFields[r].warned # <<>>

DescriptorNames == [i \in 1..Len(fieldDescriptors) |-> fieldDescriptors[i].acroName]

Mismatched(name) ==
  \E i \in 1..Len(fieldDescriptors) :
    /\ fieldDescriptors[i].acroName = name
    /\ templateForm[name].type # fieldDescriptors[i].type

FieldNames(r) == [i \in 1..Len(formFields[r].fields) |-> formFields[r].fields[i].acroName]

AwaitedSteps == {"loading", "images", "signoff", "saving", "writingPdf", "writingJson"}

\* C17: a field whose population throws is logged and skipped, every other
\* descriptor is still populated, in order, and the handler goes on: a
\* request fails only at a rejected await, never for a field, and a
\* request that is done has its PDF
C17_FieldErrorsCaught ==
  \A r \in Requests :
    /\ Filled(r) =>
         /\ formFields[r].warned = SelectSeq(DescriptorNames, Mismatched)
         /\ FieldNames(r) = SelectSeq(DescriptorNames, LAMBDA name : ~Mismatched(name))
         /\ submitStep[r] # "loading"
    /\ submitStep[r] = "failed" =>
         /\ response[r].status = 500 /\ response[r].error \in AwaitedSteps
         /\ response[r].error = "loading" <=> ~Filled(r)
    /\ submitStep[r] = "done" =>
         /\ Filled(r) /\ pdfOutput[r] # NoOutput
         /\ pdfOutput[r].fields = formFields[r].fields
         /\ response[r].status = 200

C17_Witness ==
  \E r \in Requests :
    /\ submitStep[r] = "done"
    /\ formFields[r].warned = <<"led_complete_1">>
    /\ FieldNames(r) = <<"end_customer_name", "general_notes">>
    /\ \E file \in outputDir : file.ext = "pdf" /\ file.content = pdfOutput[r]

Storage == <<outputDir, suggestionStore, storeFile>>

\* C18: a step that changes the output directory, the suggestion store or
\* store.json is a step of a request whose pdfDoc.save() had returned
C18_WrittenAfterSave ==
  [][Storage' # Storage =>
       \E r \in Requests :
         /\ submitStep'[r] # submitStep[r]
         /\ pdfOutput[r] # NoOutput]_vars

C18_Witness ==
  /\ \E r \in Requests :
       /\ submitStep[r] = "failed" /\ response[r].error = "saving"
       /\ pdfOutput[r] = NoOutput
  /\ \E r \in Requests : submitStep[r] = "done"
  /\ Cardinality(outputDir) = 2
  /\ DOMAIN suggestionStore = {"end_customer_name"}
  /\ Len(suggestionStore["end_customer_name"]) = 1
  /\ storeFile = suggestionStore

Alone(r) == fillFrom(templateForm, requestBody[r], 1, EmptyFill)

AloneGroups(entries) ==
  IF entries = <<>> THEN <<>>
  ELSE entriesPerPageOf(entries, GeneratedTemplate.size)

AlonePen(r, groups) ==
  partsRecordPen(openSignOffPen(GeneratedTemplate.pages + Len(groups),
                                GeneratedTemplate.size),
                 GeneratedTemplate.size, collectPartsRowUsage(requestBody[r]),
                 Helvetica)

AloneLastPen(pen) ==
  addPageWithHeading(pen, GeneratedTemplate.size, "Sign-off details")

Locals(r) ==
  <<partsRowUsage[r], employeeSummary[r], formFields[r], overflowQueues[r],
    requestPlacements[r], submitPen[r], pdfOutput[r]>>

\* what a request computes in the step it takes from submitStep[r], when it
\* runs alone
AloneStep(r) ==
  CASE submitStep[r] = "received" ->
         /\ partsRowUsage'[r] = collectPartsRowUsage(requestBody[r])
         /\ employeeSummary'[r] = collectEmployeeEntries(requestBody[r], SubmitClock)
    [] submitStep[r] = "loading" ->
         /\ overflowQueues[r] = <<>>
         /\ \A alone \in {Alone(r)} :
              /\ formFields'[r] = [fields |-> alone.fields, warned |-> alone.warned]
              /\ overflowQueues'[r] = alone.entries
    [] submitStep[r] = "images" ->
         \A groups \in {AloneGroups(overflowQueues[r])} :
           /\ requestPlacements'[r] =
                appendixPlacements(groups, GeneratedTemplate.pages)
           /\ submitPen'[r] = AlonePen(r, groups)
    [] submitStep[r] = "signoff" ->
         submitPen'[r] = AloneLastPen(submitPen[r])
    [] submitStep[r] = "saving" ->
         pdfOutput'[r] = [fields |-> formFields[r].fields,
                          placements |-> requestPlacements[r],
                          pageCount |-> submitPen[r].pageCount]
    [] OTHER -> Locals(r)' = Locals(r)

\* C19: under every interleaving a step of one request leaves what the other
\* requests have computed (parts row usage, employee summary, fitted texts,
\* overflow entries, placements, page and cursor) as it is, and what the
\* request computes in its own step is what its own body gives when it runs
\* alone
C19_NoSharedLayoutState ==
  [][\A r \in Requests :
       IF submitStep'[r] = submitStep[r] \/ submitStep'[r] = "failed"
       THEN Locals(r)' = Locals(r)
       ELSE AloneStep(r)]_vars

C19_Witness ==
  /\ submitStep[1] = "signoff" /\ submitStep[2] = "signoff"
  /\ overflowQueues[1] # <<>> /\ overflowQueues[2] # <<>>
  /\ overflowQueues[1] # overflowQueues[2]
  /\ requestPlacements[1] # <<>>
  /\ submitPen[1].cursorY # submitPen[2].cursorY

\* ------------------------- Properties of the checklist note (SpecExample)
NoteReturned ==
  /\ pc = "done" /\ pass = 1 /\ value = ExampleSentence
  /\ multiline /\ minFontSize = HalfPt(RuleMinFontSize)

RectHeight == widget.y2 - widget.y1

\* C20 as stated: the note comes back as two displayed lines with the rest in
\* overflowText, at a size of at most 10
C20_Original ==
  NoteReturned =>
    /\ layout.displayedLines = 2
    /\ layout.overflowText # <<>>
    /\ layout.appliedFontSize <= HalfPt(10)

\* C20: the note is shrunk until all of it fits: overflowText is empty,
\* the displayed lines hold every word, and the size is below 10; up to a
\* height of 34pt these are two lines at size 8, from 35pt on three lines at
\* a size from 8.5 to 9.5
C20_ExampleFits ==
  NoteReturned =>
    /\ layout.overflowText = <<>> /\ ~layout.overflowDetected
    /\ Ink(layout.fieldText) = Ink(ExampleSentence)
    /\ layout.appliedFontSize < HalfPt(10)
    /\ layout.displayedLines = layout.totalLines
    /\ IF RectHeight <= 34
       THEN /\ layout.displayedLines = 2
            /\ layout.appliedFontSize = HalfPt(8)
            /\ tried = <<20, 19, 18, 17, 16>>
       ELSE /\ layout.displayedLines = 3
            /\ layout.appliedFontSize \in {17, 18, 19}

C20_Witness ==
  /\ NoteReturned /\ RectHeight = 28 /\ widget.x2 - widget.x1 = 150
  /\ layout.displayedLines = 2 /\ layout.appliedFontSize = 16
  /\ layout.overflowText = <<>>
  /\ Len(layout.fieldText) = Len(ExampleSentence)

\* ------------------- Properties of the layout functions called directly
\* ------------------- (SpecCalls)
\* lines are the pieces of text between its line breaks, and nothing else
OnlyNewlineSplit(lines, text) ==
  /\ Len(lines) = Cardinality({i \in 1..Len(text) : text[i] = NL}) + 1
  /\ join(lines) = text
  /\ \A i \in 1..Len(lines) : \A j \in 1..Len(lines[i]) : lines[i][j] # NL

NoUsableWidth ==
  \/ callArgs.font = NoFont
  \/ ~callArgs.maxWidth.finite
  \/ callArgs.maxWidth.val <= 0

\* C21: without a font, or with a maxWidth that is not finite or not
\* positive, wrapTextToWidth and layoutTextForWidth return the text split at
\* its line breaks only, at the font size given, and do not throw;
\* layoutTextForField without a font or a widget returns the same lines with
\* an empty overflowText and the font size of the policy.
C21_Fallback ==
  /\ callee = "wrapTextToWidth" /\ NoUsableWidth =>
        ~callThrew /\ OnlyNewlineSplit(callResult, callArgs.text)
  /\ callee = "layoutTextForWidth" /\ NoUsableWidth =>
        /\ ~callThrew
        /\ OnlyNewlineSplit(callResult.lines, callArgs.text)
        /\ callResult.lineCount = Len(callResult.lines)
        /\ callResult.fontSize = CallStyle.fontSize
  /\ callee = "layoutTextForField"
       /\ (callArgs.font = NoFont \/ callArgs.widget = NoWidget) =>
        /\ ~callThrew
        /\ callResult.fieldText = callArgs.text
        /\ callResult.totalLines
             = Cardinality({i \in 1..Len(callArgs.text) :
                              callArgs.text[i] = NL}) + 1
        /\ callResult.displayedLines = callResult.totalLines
        /\ callResult.overflowText = <<>>
        /\ ~callResult.overflowDetected
        /\ callResult.appliedFontSize = CallStyle.fontSize

\* a text with a space and a line break, measurable but given NaN as width:
\* two lines, the space kept inside the first
C21_Witness ==
  /\ callee = "wrapTextToWidth"
  /\ callArgs.font = Helvetica /\ ~callArgs.maxWidth.finite
  /\ Len(callResult) = 2
  /\ \E i \in 1..Len(callResult[1]) : callResult[1][i] = " "

\* the fragments of word cut after the positions in cuts, as pairs of ends
FragmentsOf(word, cuts) ==
  {<<a, b>> \in (1..Len(word)) \X (1..Len(word)) :
     /\ a <= b
     /\ a = 1 \/ a - 1 \in cuts
     /\ b = Len(word) \/ b \in cuts
     /\ \A k \in a..(b - 1) : k \notin cuts}

\* every fragment fits within maxWidth, or is one character
FragmentsFit(word, cuts, size, maxWidth) ==
  \A ends \in FragmentsOf(word, cuts) :
    \/ ends[1] = ends[2]
    \/ widthOfTextAtSize(SubSeq(word, ends[1], ends[2]), size) <= maxWidth

RECURSIVE Glued(_)
Glued(parts) == IF parts = <<>> THEN <<>> ELSE Head(parts) \o Glued(Tail(parts))

TooWide ==
  /\ callee = "splitLongWord" /\ ~NoUsableWidth /\ ~callThrew
  /\ widthOfTextAtSize(callArgs.text, CallStyle.fontSize)
       > callArgs.maxWidth.val

\* C22: splitLongWord cuts a word wider than maxWidth into consecutive
\* fragments that each fit within maxWidth or are a single character, that
\* join to the word, and no cutting of the word into such fragments has
\* fewer of them.
C22_MinimalSplit ==
  TooWide =>
    /\ Glued(callResult) = callArgs.text
    /\ \A i \in 1..Len(callResult) :
         /\ callResult[i] # <<>>
         /\ \/ Len(callResult[i]) = 1
            \/ widthOfTextAtSize(callResult[i], CallStyle.fontSize)
                 <= callArgs.maxWidth.val
    /\ \A cuts \in SUBSET (1..(Len(callArgs.text) - 1)) :
         FragmentsFit(callArgs.text, cuts, CallStyle.fontSize,
                      callArgs.maxWidth.val)
           => Cardinality(cuts) + 1 >= Len(callResult)

\* a word cut into a wide glyph on its own, two narrow ones together and
\* a wide one again
C22_Witness ==
  /\ TooWide
  /\ Len(callResult) = 3
  /\ Len(callResult[1]) = 1
  /\ widthOfTextAtSize(callResult[1], CallStyle.fontSize) > callArgs.maxWidth.val
  /\ Len(callResult[2]) = 2

\* -------------- Totals of the employee roster (SpecEmployees)
RECURSIVE SumDurations(_)
SumDurations(entries) ==
  IF entries = <<>> THEN 0
  ELSE Head(entries).durationMinutes + SumDurations(Tail(entries))

RECURSIVE SumBreaks(_)
SumBreaks(entries) ==
  IF entries = <<>> THEN 0
  ELSE Head(entries).breakRequiredMinutes + SumBreaks(Tail(entries))

BreakCodes == {"NONE", "MIN30", "MIN45", "UNKNOWN"}

\* C23: the summary of collectEmployeeEntries has at most 20 entries; its
\* totalMinutes is the sum of their durationMinutes and its totalBreakMinutes
\* the sum of their breakRequiredMinutes; each entry is counted once, under
\* its own breakCode, so that the four counts add up to the entries.
C23_Totals ==
  Collected =>
    /\ Len(summary.entries) <= 20
    /\ summary.totalMinutes = SumDurations(summary.entries)
    /\ summary.totalBreakMinutes = SumBreaks(summary.entries)
    /\ DOMAIN summary.breakStats = BreakCodes
    /\ \A i \in 1..Len(summary.entries) :
         summary.entries[i].breakCode \in BreakCodes
    /\ \A code \in BreakCodes :
         summary.breakStats[code]
           = Cardinality({i \in 1..Len(summary.entries) :
                            summary.entries[i].breakCode = code})

\* twenty-one employees were sent as an object keyed from 25 on: twenty
\* entries, ten of them with a break of 30 minutes
C23_Witness ==
  /\ Collected
  /\ body.kind = "object" /\ body.employees.kind = "map"
  /\ Len(body.employees.entries) > 20
  /\ Len(summary.entries) = 20
  /\ summary.breakStats["MIN30"] = 10 /\ summary.breakStats["NONE"] = 10
  /\ summary.totalBreakMinutes = 300

\* =================================================================
\* Properties of the parts table (SpecTable)
\* =================================================================
TableReady == tableStep = "ready"

RowsInRange ==
  /\ Cardinality(visibleRows(tableRows)) >= 1
  /\ Cardinality(visibleRows(tableRows)) <= 15

ButtonsMatch ==
  /\ addButton <=> (\A i \in DOMAIN tableRows : ~tableRows[i].hidden)
  /\ removeButton <=> (Cardinality(visibleRows(tableRows)) = 1)

HiddenRowsEmpty ==
  \A i \in DOMAIN tableRows :
    tableRows[i].hidden =>
      \A n \in InputNames :
        /\ tableRows[i].inputs[n].value = <<>>
        /\ tableRows[i].inputs[n].disabled

\* the rows other than row i keep their hidden class
OthersKept(i) ==
  \A j \in DOMAIN tableRows \ {i} : tableRows'[j].hidden = tableRows[j].hidden

AddReveals ==
  lastEvent' = "add" =>
    \E i \in DOMAIN tableRows :
      /\ tableRows[i].hidden /\ ~tableRows'[i].hidden
      /\ \A j \in 1..(i - 1) : ~tableRows[j].hidden
      /\ OthersKept(i)

RemoveHides ==
  lastEvent' = "remove" =>
    \E i \in DOMAIN tableRows :
      /\ ~tableRows[i].hidden /\ tableRows'[i].hidden
      /\ \A j \in (i + 1)..Len(tableRows) : tableRows[j].hidden
      /\ \A n \in InputNames : tableRows'[i].inputs[n].value = <<>>
      /\ OthersKept(i)

\* C24: once setupPartsTable has run, and after any clicks on Add and
\* Remove, between 1 and 15 rows are shown; Add is disabled exactly when no
\* row is hidden and Remove exactly when one row is shown; every hidden row
\* has all its inputs empty and disabled; a click on Add shows the first
\* hidden row and a click on Remove hides and clears the last row shown.
C24_PartsTable ==
  /\ [](TableReady => RowsInRange /\ ButtonsMatch /\ HiddenRowsEmpty)
  /\ [][AddReveals /\ RemoveHides]_vars

C24_Witness ==
  /\ TableReady /\ lastEvent = "remove"
  /\ Cardinality(visibleRows(tableRows)) = 14
  /\ tableRows[1].inputs["parts_used_part"].value = <<"a">>
  /\ typed = 1

\* =================================================================
\* Rows and titles of the sign-off pages (SpecSignOff)
\* =================================================================
RowAboveMargin(mark) == mark.y - mark.height * PagePt >= margin * PagePt

\* C25: every table row drawn by drawSignOffPage lies at or above the
\* bottom margin: cursorY - rowHeight >= margin when it is drawn.
C25_RowsAboveMargin ==
  \A i \in 1..Len(drawn) : drawn[i].op = "row" => RowAboveMargin(drawn[i])

IsTitle(mark) == mark.op = "title"
Plain(mark) == IsTitle(mark) /\ mark.label = mark.section
Continued(mark) == IsTitle(mark) /\ mark.label = mark.section \o " (cont.)"

PlainTitles(section) ==
  {i \in 1..Len(drawn) : Plain(drawn[i]) /\ drawn[i].section = section}

TitledSections == {drawn[i].section : i \in {j \in 1..Len(drawn) : IsTitle(drawn[j])}}

\* C26: in a pass of drawSignOffPage a title with "(cont.)" is drawn only
\* after the title of the same section without the suffix, and the title
\* without the suffix is drawn exactly once for each section.
C26_ContinuedAfterTitle ==
  /\ \A i \in 1..Len(drawn) :
       Continued(drawn[i]) =>
         \E j \in 1..(i - 1) :
           Plain(drawn[j]) /\ drawn[j].section = drawn[i].section
  /\ \A section \in TitledSections : Cardinality(PlainTitles(section)) <= 1
  /\ stage = "done" =>
       \A section \in TitledSections : Cardinality(PlainTitles(section)) = 1

\* =================================================================
\* Output files and the suggestion store (SpecSubmit)
\* =================================================================
Exists(name, ext) ==
  \E file \in outputDir :
    file.base = name.base /\ file.counter = name.counter /\ file.ext = ext

WritesPdf(r) == submitStep[r] = "writingPdf" /\ submitStep'[r] = "writingJson"
HasWritten(r) == submitStep[r] \in {"writingJson", "done"}

\* C27: the name a submission has chosen for its PDF does not exist in the
\* output directory when the file is written, and no two submissions write
\* the same name, whatever the interleaving of the requests at the awaits.
C27_NoOverwrite ==
  /\ [][\A r \in Requests : WritesPdf(r) => ~Exists(chosenName[r], "pdf")]_vars
  /\ [](\A r, s \in Requests :
          r # s /\ HasWritten(r) /\ HasWritten(s)
            => chosenName[r] # chosenName[s])

Buckets == {suggestionStore[field] : field \in DOMAIN suggestionStore}

Lowered(chars) ==
  [i \in 1..Len(chars) |->
     CASE chars[i] = "A" -> "a" [] chars[i] = "I" -> "i" [] chars[i] = "O" -> "o"
       [] OTHER -> chars[i]]

\* no white space at either end and no two white space characters in a row
WhitespaceNormalized(chars) ==
  /\ chars = <<>> \/ (~IsSpace(chars[1]) /\ ~IsSpace(chars[Len(chars)]))
  /\ \A i \in 1..(Len(chars) - 1) : ~(IsSpace(chars[i]) /\ IsSpace(chars[i + 1]))
  /\ \A i \in 1..Len(chars) : chars[i] # NL

WellFormedBucket(bucket) ==
  /\ Len(bucket) >= 1 /\ Len(bucket) <= 12
  /\ \A i, j \in 1..Len(bucket) :
       i # j => Lowered(bucket[i]) # Lowered(bucket[j])
  /\ \A i \in 1..Len(bucket) :
       Len(bucket[i]) >= 3 /\ WhitespaceNormalized(bucket[i])

SupportedFields ==
  {"end_customer_name", "site_location", "service_company_name",
   "engineer_company", "engineer_name", "customer_company", "customer_name"}

\* the value of a field that a submission offers to the store, when it is
\* long enough to be accepted
Offered(r, field) ==
  IF field \in DOMAIN requestBody[r]
  THEN normalizeSuggestionValue(toSingleValue(requestBody[r][field]))
  ELSE <<>>
Accepts(r, field) == Len(Offered(r, field)) >= 3

RecordsSuggestions(r) == submitStep[r] = "writingJson" /\ submitStep'[r] = "done"

FrontIsLatest(r) ==
  \A field \in SupportedFields :
    IF Accepts(r, field)
    THEN /\ field \in DOMAIN suggestionStore'
         /\ Lowered(suggestionStore'[field][1]) = Lowered(Offered(r, field))
    ELSE /\ field \in DOMAIN suggestionStore' <=> field \in DOMAIN suggestionStore
         /\ field \in DOMAIN suggestionStore =>
              suggestionStore'[field] = suggestionStore[field]

\* C28: every bucket of the store belongs to a supported suggestion field,
\* holds at most 12 values, no two of them equal ignoring case, each of them
\* whitespace-normalized and at least 3 characters long; a submission that
\* records leaves each value it offers at index 0 of its field (ignoring
\* case) and the other buckets as they were; and the store changes only in
\* a step of a submission that has written its PDF and its JSON sidecar.
C28_SuggestionStore ==
  /\ [](/\ DOMAIN suggestionStore \subseteq SupportedFields
        /\ \A bucket \in Buckets : WellFormedBucket(bucket))
  /\ [][\A r \in Requests : RecordsSuggestions(r) => FrontIsLatest(r)]_vars
  /\ [][suggestionStore' # suggestionStore =>
         \E r \in Requests :
           /\ RecordsSuggestions(r)
           /\ \E file \in outputDir' :
                file.base = chosenName[r].base
                /\ file.counter = chosenName[r].counter /\ file.ext = "pdf"
           /\ \E file \in outputDir' :
                file.base = chosenName[r].base
                /\ file.counter = chosenName[r].counter /\ file.ext = "json"]_vars

\* a full bucket has taken a new name and lost its oldest one, then a name
\* it held in other letters has moved to the front; a second bucket exists
C28_Witness ==
  /\ \A r \in Requests : submitStep[r] = "done"
  /\ DOMAIN suggestionStore = {"end_customer_name", "engineer_name"}
  /\ Len(suggestionStore["end_customer_name"]) = 12
  /\ suggestionStore["end_customer_name"][1] = <<"I", "I", "a">>
  /\ suggestionStore["end_customer_name"][2] = <<"a", " ", "i", "a">>
  /\ \A i \in 1..12 :
       suggestionStore["end_customer_name"][i] \notin {<<"a", "a", "a">>, <<"i", "i", "a">>}
  /\ suggestionStore["engineer_name"] = <<<<"a", "i", " ", "a">>>>

\* the pages drawSignOffPage has drawn on, and the appendix pages
SummaryPages(r) ==
  {submitPen[r].drawn[i].page : i \in 1..Len(submitPen[r].drawn)}
AppendixPages(r) ==
  {requestPlacements[r][i].page : i \in 1..Len(requestPlacements[r])}

Contiguous(pages) ==
  \A p \in pages, q \in pages : \A between \in p..q : between \in pages

\* C29: the pages of the maintenance summary form one run of pages: each
\* page drawSignOffPage adds comes right after the summary page before it,
\* and no appendix page lies between two summary pages.
C29_SummaryContiguous ==
  \A r \in Requests :
    /\ Contiguous(SummaryPages(r))
    /\ \A p \in SummaryPages(r), q \in SummaryPages(r) :
         \A between \in p..q : between \notin AppendixPages(r)

\* =================================================================
\* The cursor on the appendix pages (SpecOverflow)
\* =================================================================
RECURSIVE BudgetLines(_)
BudgetLines(entries) ==
  IF entries = <<>> THEN 0
  ELSE Len(splitLines(Head(entries).text)) + 2 + BudgetLines(Tail(entries))

DrawnAppendixPages ==
  {k \in 1..Len(entriesPerPage) : appendixBase.pages + k <= Len(pdfPages)
                                   /\ pdfPages[appendixBase.pages + k].origin = "appendix"}

WithinBudget(k) ==
  BudgetLines(entriesPerPage[k]) * 12 * PagePt
    <= appendixBase.size.height - 2 * 56 * PagePt

\* C30: on every appendix page whose entries are within the line budget the
\* cursor ends at or above the bottom margin, after the title, the labels,
\* the lines and the spacing of its entries.
C30_AppendixAboveMargin ==
  \A k \in DrawnAppendixPages :
    WithinBudget(k) => pdfPages[appendixBase.pages + k].cursorY >= 56 * PagePt
====
